---- MODULE Spec2Model ----
(***************************************************************************)
(* Job orchestration engine of the multi-agent document analysis service:  *)
(* the in-memory Store (app/models/storage.py), the admission endpoint     *)
(* POST /analyze (app/main.py), the background run                         *)
(* (app/services/background_tasks.py) and the fan-out/fan-in Orchestrator  *)
(* (app/services/orchestrator.py).                                         *)
(*                                                                         *)
(* Scheduling: everything runs on one asyncio event loop.  A Store method  *)
(* takes an uncontended asyncio.Lock and holds it over no await, so a      *)
(* stretch of code between two real suspension points (asyncio.to_thread,  *)
(* agent.execute, asyncio.gather, sending the HTTP response) is one atomic *)
(* step here.  The wall clock is taken to advance between two save_job     *)
(* calls.                                                                  *)
(***************************************************************************)
EXTENDS Integers, Sequences, FiniteSets, TLC

VARIABLES
    documents,   \* StorageManager.documents: the ids of the stored documents
    files,       \* the upload directory: what each document's file holds
    jobs,        \* StorageManager.jobs, in insertion order; the job id is the index
    clock,       \* the wall clock read by save_job
    runs,        \* the background tasks queued by POST /analyze, with their locals
    responses,   \* the answers POST /analyze has given, in order
    ended,       \* history: the jobs that have had a terminal status
    call         \* the call in progress, or the input held fixed, when a part
                 \* of the service is run on its own

vars == <<documents, files, jobs, clock, runs, responses, ended, call>>

engine_vars == <<documents, files, jobs, clock, runs, responses, ended>>

----------------------------------------------------------------------------
(* Bounds of the model *)

\* POST /analyze calls issued in one behaviour
MaxAdmissions == 3
\* runs of one document that are in the fan-out of analyze_document at one time
MaxGathering == 1

\* ids handed out by generate_document_id, in the order they are drawn
DocIds == <<"doc_a">>

\* what an uploaded file can be: a file with words, a .txt of blanks only,
\* a .pdf without a text layer, a file the extractors cannot read
FileKinds == {"text", "whitespace", "no_text", "corrupt"}

\* what the wrapped process() of an agent does
Behaviours == {"returns_dict", "returns_non_dict", "raises", "times_out"}

----------------------------------------------------------------------------
(* StatusEnum *)

PENDING == "pending"
PROCESSING == "processing"
COMPLETED == "completed"
FAILED == "failed"
PARTIAL == "partial"

StatusEnum == {"uploaded", PENDING, PROCESSING, COMPLETED, FAILED, PARTIAL}

\* the agents the Orchestrator runs
OrchestratorAgents == {"summarizer", "entity_extractor", "sentiment_analyzer", "keyword_extractor"}

\* how the four agents behave in one run: every combination
AllScenarios == [OrchestratorAgents -> Behaviours]

\* the combinations the runs of the whole system draw from
AllSucceed == [a \in OrchestratorAgents |-> "returns_dict"]
AllFail == [a \in OrchestratorAgents |-> "raises"]
OneTimesOut == [a \in OrchestratorAgents |-> IF a = "entity_extractor" THEN "times_out" ELSE "returns_dict"]
Scenarios == {AllSucceed, AllFail, OneTimesOut}

\* the agents_status keys save_job gives a new job
SaveJobAgents == {"summarizer", "entity_extractor", "sentiment_analyzer"}

\* Python None / Optional values: <<>> is None, <<x>> is x
None == <<>>
Some(x) == <<x>>

\* an empty dict
EmptyDict == <<>>

\* dict.update(new): keys of new are set, every other key keeps its value
DictUpdate(old, new) ==
    [k \in (DOMAIN old) \cup (DOMAIN new) |-> IF k \in DOMAIN new THEN new[k] ELSE old[k]]

----------------------------------------------------------------------------
(* Store *)

\* JobStorage as save_job builds it
NewJob(job_id, document_id, start_time) ==
    [ job_id |-> job_id,
      document_id |-> document_id,
      status |-> PENDING,
      agents_status |-> [a \in SaveJobAgents |-> PENDING],
      results |-> EmptyDict,
      start_time |-> start_time,
      end_time |-> None,
      error_messages |-> EmptyDict,
      metadata |-> None ]

\* a slip of save_job: the jobs already stored are stamped again
save_job_restamps(js, document_id, job_id, now) ==
    Append([j \in DOMAIN js |-> [js[j] EXCEPT !.start_time = now]],
           NewJob(job_id, document_id, now))

\* StorageManager.save_job: self.jobs[job_id] = job
save_job(js, document_id, job_id, now) ==
    IF job_id \in DOMAIN js
    THEN [js EXCEPT ![job_id] = NewJob(job_id, document_id, now)]
    ELSE Append(js, NewJob(job_id, document_id, now))

\* a slip of update_job_status: the agents_status argument is dropped
UpdatedJob_drops_agents_status(job, status, agents_status, results, end_time, error_messages, metadata) ==
    [ job EXCEPT
        !.status = status,
        !.results = IF results # EmptyDict THEN DictUpdate(@, results) ELSE @,
        !.end_time = IF end_time # None THEN end_time ELSE @,
        !.error_messages = IF error_messages # EmptyDict THEN DictUpdate(@, error_messages) ELSE @,
        !.metadata = IF metadata # None THEN metadata ELSE @ ]

\* a slip of update_job_status: results is assigned, not merged
UpdatedJob_replaces_results(job, status, agents_status, results, end_time, error_messages, metadata) ==
    [ job EXCEPT
        !.status = status,
        !.agents_status = IF agents_status # EmptyDict THEN DictUpdate(@, agents_status) ELSE @,
        !.results = IF results # EmptyDict THEN results ELSE @,
        !.end_time = IF end_time # None THEN end_time ELSE @,
        !.error_messages = IF error_messages # EmptyDict THEN DictUpdate(@, error_messages) ELSE @,
        !.metadata = IF metadata # None THEN metadata ELSE @ ]

\* StorageManager.update_job_status: the job record after the call
UpdatedJob(job, status, agents_status, results, end_time, error_messages, metadata) ==
    [ job EXCEPT
        !.status = status,
        !.agents_status = IF agents_status # EmptyDict THEN DictUpdate(@, agents_status) ELSE @,
        !.results = IF results # EmptyDict THEN DictUpdate(@, results) ELSE @,
        !.end_time = IF end_time # None THEN end_time ELSE @,
        !.error_messages = IF error_messages # EmptyDict THEN DictUpdate(@, error_messages) ELSE @,
        !.metadata = IF metadata # None THEN metadata ELSE @ ]

\* a slip of update_job_status: the write lands on every job of the Store
update_job_status_every_job(js, job_id, status, agents_status, results, end_time, error_messages, metadata) ==
    IF job_id \notin DOMAIN js
    THEN js
    ELSE [j \in DOMAIN js |->
            UpdatedJob(js[j], status, agents_status, results, end_time, error_messages, metadata)]

\* a slip of update_job_status: an unknown id falls back on the job saved last
update_job_status_falls_back(js, job_id, status, agents_status, results, end_time, error_messages, metadata) ==
    IF job_id \notin DOMAIN js
    THEN IF js = <<>> THEN js
         ELSE [js EXCEPT ![Len(js)] =
                 UpdatedJob(@, status, agents_status, results, end_time, error_messages, metadata)]
    ELSE [js EXCEPT ![job_id] =
            UpdatedJob(@, status, agents_status, results, end_time, error_messages, metadata)]

\* StorageManager.update_job_status: the jobs dict after the call
update_job_status(js, job_id, status, agents_status, results, end_time, error_messages, metadata) ==
    IF job_id \notin DOMAIN js
    THEN js
    ELSE [js EXCEPT ![job_id] =
            UpdatedJob(@, status, agents_status, results, end_time, error_messages, metadata)]

\* ids of the jobs of a document, in insertion order
JobsOfDocument(js, document_id) ==
    {i \in DOMAIN js : js[i].document_id = document_id}

\* a slip of get_latest_job_for_document: the jobs are not filtered by document
get_latest_job_for_document_any_document(js, document_id) ==
    LET matches == DOMAIN js
        latest == {i \in matches : \A k \in matches : js[k].start_time <= js[i].start_time}
    IN IF matches = {} THEN 0
       ELSE CHOOSE i \in latest : \A k \in latest : i <= k

\* StorageManager.get_latest_job_for_document: the job id, 0 for None.
\* The sort on start_time is stable and reversed: among the jobs with the
\* greatest start_time the one inserted first comes first.
get_latest_job_for_document(js, document_id) ==
    LET matches == JobsOfDocument(js, document_id)
        latest == {i \in matches : \A k \in matches : js[k].start_time <= js[i].start_time}
    IN IF matches = {} THEN 0
       ELSE CHOOSE i \in latest : \A k \in latest : i <= k

----------------------------------------------------------------------------
(* Task Envelope and Orchestrator helpers *)

DocumentNotFoundMessage == "Document not found."
NoTextMessage == "No text could be extracted from the uploaded file."
ExtractFailedMessage == "Failed to read text file."

Whitespace == {" ", "\n", "\t"}

\* str.strip(): leading and trailing whitespace removed
RECURSIVE StripLeft(_)
StripLeft(text) ==
    IF text # <<>> /\ Head(text) \in Whitespace THEN StripLeft(Tail(text)) ELSE text

RECURSIVE StripRight(_)
StripRight(text) ==
    IF text # <<>> /\ text[Len(text)] \in Whitespace
    THEN StripRight(SubSeq(text, 1, Len(text) - 1))
    ELSE text

strip(text) == StripRight(StripLeft(text))

\* a slip of the precondition: the text is not stripped before the test
NoTextExtracted_without_strip(document_text) ==
    document_text = <<>>

\* run_analysis_task: not document_text or not document_text.strip()
NoTextExtracted(document_text) ==
    document_text = <<>> \/ strip(document_text) = <<>>

TimeoutMessage == "Operation exceeded timeout of 30 seconds"
NotADictMessage == "Agent process() must return a dictionary payload."
ProcessErrorMessage == "process() raised"

\* timeout_guard around process(): what _process_with_timeout gives execute.
\* A TimeoutError raised by process() itself is an asyncio.TimeoutError
\* (Python 3.11 and later), which the guard catches and raises again.
timeout_guard(behaviour) ==
    CASE behaviour = "times_out" -> [raised |-> "TimeoutError", value |-> TimeoutMessage]
      [] behaviour = "raises_timeout_error" -> [raised |-> "TimeoutError", value |-> TimeoutMessage]
      [] behaviour = "raises" -> [raised |-> "Exception", value |-> ProcessErrorMessage]
      [] behaviour = "returns_non_dict" -> [raised |-> "", value |-> "not a dict"]
      [] OTHER -> [raised |-> "", value |-> "dict"]

\* BaseDocumentAgent._error_response
_error_response(error_type, message) ==
    [status |-> "error", error_type |-> error_type, message |-> message]

\* a slip of execute: no handler for exceptions other than TimeoutError
execute_without_catch_all(behaviour) ==
    LET result == timeout_guard(behaviour)
    IN IF result.raised = "TimeoutError" THEN _error_response("timeout", result.value)
       ELSE IF result.raised # "" THEN [status |-> "raised", message |-> result.value]
       ELSE IF result.value # "dict" THEN [status |-> "raised", message |-> NotADictMessage]
       ELSE [status |-> "success", data |-> [data |-> "payload"]]

\* BaseDocumentAgent.execute: the envelope
execute(behaviour) ==
    LET result == timeout_guard(behaviour)
    IN IF result.raised = "TimeoutError" THEN _error_response("timeout", result.value)
       ELSE IF result.raised # "" THEN _error_response("exception", result.value)
       ELSE IF result.value # "dict" THEN _error_response("exception", NotADictMessage)
       ELSE [status |-> "success", data |-> [data |-> "payload"]]

\* DocumentAnalysisOrchestrator._run_agent: raises RuntimeError(message) on an
\* error envelope, returns the payload otherwise
_run_agent(envelope) ==
    IF envelope.status = "error"
    THEN [raised |-> TRUE, value |-> envelope.message]
    ELSE [raised |-> FALSE, value |-> envelope.data]

\* number of keys of a status dict holding one status
CountStatus(agents_status, status) ==
    Cardinality({a \in DOMAIN agents_status : agents_status[a] = status})

\* a slip of _determine_status: one failure fails the job
_determine_status_any_failed(agents_status) ==
    IF CountStatus(agents_status, FAILED) > 0 THEN FAILED
    ELSE IF CountStatus(agents_status, COMPLETED) = Cardinality(DOMAIN agents_status) THEN COMPLETED
    ELSE PARTIAL

\* DocumentAnalysisOrchestrator._determine_status
_determine_status(agents_status) ==
    LET completed == CountStatus(agents_status, COMPLETED)
        failed == CountStatus(agents_status, FAILED)
    IN IF completed = Cardinality(DOMAIN agents_status) THEN COMPLETED
       ELSE IF failed = Cardinality(DOMAIN agents_status) THEN FAILED
       ELSE PARTIAL

\* the names of a failed_agents dict, in insertion order
FailedList(failed_agents) ==
    [i \in 1..Len(failed_agents) |-> failed_agents[i].name]

\* the failed_agents dict as a mapping name -> message
FailedDict(failed_agents) ==
    [n \in {failed_agents[i].name : i \in 1..Len(failed_agents)} |->
        (CHOOSE e \in {failed_agents[i] : i \in 1..Len(failed_agents)} : e.name = n).message]

\* a slip of the metadata: every task counts as completed
BuildMetadata_counts_all(agents_status, failed_agents) ==
    [ parallel_execution |-> TRUE,
      agents_completed |-> Cardinality(DOMAIN agents_status),
      agents_failed |-> CountStatus(agents_status, FAILED),
      warning |-> IF Len(failed_agents) > 0 THEN Some("Some agents failed to complete") ELSE None,
      failed_agents |-> FailedList(failed_agents) ]

\* Metadata as analyze_document builds it (the two clock readings left out)
BuildMetadata(agents_status, failed_agents) ==
    [ parallel_execution |-> TRUE,
      agents_completed |-> CountStatus(agents_status, COMPLETED),
      agents_failed |-> CountStatus(agents_status, FAILED),
      warning |-> IF Len(failed_agents) > 0 THEN Some("Some agents failed to complete") ELSE None,
      failed_agents |-> FailedList(failed_agents) ]

----------------------------------------------------------------------------
(* State *)

TerminalStatuses == {COMPLETED, FAILED, PARTIAL}

\* history: the jobs that have had a terminal status so far
EndedJobs(before, js) ==
    before \cup {j \in DOMAIN js : js[j].status \in TerminalStatuses}

RunPcs == {"scheduled", "extracting", "extracted", "gathering", "done"}

ActivePcs == {"extracting", "extracted", "gathering"}

ActiveRuns == {r \in DOMAIN runs : runs[r].pc \in ActivePcs}

GatheringRuns == {r \in DOMAIN runs : runs[r].pc = "gathering"}

AllDocIds == {DocIds[i] : i \in DOMAIN DocIds}

Init ==
    /\ documents = {}
    /\ files = [d \in AllDocIds |-> "missing"]
    /\ jobs = <<>>
    /\ clock = 0
    /\ runs = <<>>
    /\ responses = <<>>
    /\ ended = {}
    /\ call = None

\* POST /upload: the file is stored under a fresh document id
upload_document(kind) ==
    /\ Cardinality(documents) < Len(DocIds)
    /\ LET document_id == DocIds[Cardinality(documents) + 1]
       IN /\ documents' = documents \cup {document_id}
          /\ files' = [files EXCEPT ![document_id] = kind]
    /\ UNCHANGED <<jobs, clock, runs, responses, ended, call>>

\* a background task as schedule_background_analysis queues it
NewRun(job_id, document_id) ==
    [ job_id |-> job_id,
      document_id |-> document_id,
      pc |-> "scheduled",
      extracted |-> None,
      behaviours |-> EmptyDict,
      agents_status |-> EmptyDict,
      results_payload |-> EmptyDict,
      failed_agents |-> <<>> ]

\* a background task that has returned: its locals are gone
EndedRun(run) ==
    [NewRun(run.job_id, run.document_id) EXCEPT !.pc = "done"]

\* a slip of the admission test: a job in progress is not returned
ReturnsExisting_finished_only(status) ==
    status \in {COMPLETED, PARTIAL}

\* a slip of the admission test: a partial job is analysed again
ReturnsExisting_without_partial(status) ==
    status \in {PROCESSING, COMPLETED}

\* analyze_document (main.py): the statuses for which the latest job is returned as it is
ReturnsExisting(status) ==
    status \in {PROCESSING, COMPLETED, PARTIAL}

\* a slip of the admission test: a failed job is scheduled again
ReusesExisting_failed_too(status) ==
    status \in {PENDING, FAILED}

\* analyze_document (main.py): the status for which the latest job is scheduled again
ReusesExisting(status) ==
    status = PENDING

\* POST /analyze/{document_id}
post_analyze(document_id) ==
    /\ Len(responses) < MaxAdmissions
    /\ LET existing == get_latest_job_for_document(jobs, document_id)
       IN IF document_id \notin documents
          THEN /\ responses' = Append(responses,
                     [document_id |-> document_id, code |-> 404, job_id |-> 0, status |-> ""])
               /\ UNCHANGED <<jobs, clock, runs>>
          ELSE IF existing # 0 /\ ReturnsExisting(jobs[existing].status)
          THEN /\ responses' = Append(responses,
                     [document_id |-> document_id,
                      code |-> IF jobs[existing].status = PROCESSING THEN 202 ELSE 200,
                      job_id |-> existing, status |-> jobs[existing].status])
               /\ UNCHANGED <<jobs, clock, runs>>
          ELSE LET reuse == existing # 0 /\ ReusesExisting(jobs[existing].status)
                   job_id == IF reuse THEN existing ELSE Len(jobs) + 1
               IN /\ IF reuse
                     THEN UNCHANGED <<jobs, clock>>
                     ELSE /\ clock' = clock + 1
                          /\ jobs' = save_job(jobs, document_id, job_id, clock + 1)
                  /\ runs' = Append(runs, NewRun(job_id, document_id))
                  /\ responses' = Append(responses,
                        [document_id |-> document_id, code |-> 202,
                         job_id |-> job_id, status |-> PENDING])
    /\ UNCHANGED <<documents, files, ended, call>>

\* BackgroundTaskService._cleanup_file
_cleanup_file(fs, document_id) ==
    [fs EXCEPT ![document_id] = "missing"]

\* run_analysis_task up to its first suspension (asyncio.to_thread)
run_analysis_task_start(r) ==
    /\ runs[r].pc = "scheduled"
    /\ IF runs[r].document_id \notin documents
       THEN /\ jobs' = update_job_status(jobs, runs[r].job_id, FAILED, EmptyDict, EmptyDict,
                          None, [orchestrator |-> DocumentNotFoundMessage], None)
            /\ runs' = [runs EXCEPT ![r] = EndedRun(@)]
       ELSE /\ runs' = [runs EXCEPT ![r].pc = "extracting"]
            /\ UNCHANGED jobs
    /\ ended' = EndedJobs(ended, jobs')
    /\ UNCHANGED <<documents, files, clock, responses, call>>

\* extract_text_from_pdf / extract_text_from_txt on a file: the text as a
\* sequence of characters, or the HTTPException raised when the file cannot
\* be read (or is no longer there)
ExtractedText(file) ==
    CASE file = "text" -> [raised |-> FALSE, text |-> <<"w", " ">>, detail |-> ""]
      [] file = "whitespace" -> [raised |-> FALSE, text |-> <<" ", "\n">>, detail |-> ""]
      [] file = "no_text" -> [raised |-> FALSE, text |-> <<>>, detail |-> ""]
      [] OTHER -> [raised |-> TRUE, text |-> <<>>, detail |-> ExtractFailedMessage]

\* the extraction in the worker thread of asyncio.to_thread
extract_text(r) ==
    /\ runs[r].pc = "extracting"
    /\ runs' = [runs EXCEPT ![r].pc = "extracted",
                            ![r].extracted = Some(ExtractedText(files[runs[r].document_id]))]
    /\ UNCHANGED <<documents, files, jobs, clock, responses, ended, call>>

\* a slip of the first write of analyze_document: the status goes first, the
\* tasks are left for the next write
run_analysis_task_dispatch_status_first(r, behaviours) ==
    /\ runs[r].pc = "extracted"
    /\ CASE runs[r].extracted[1].raised ->
              /\ jobs' = update_job_status(jobs, runs[r].job_id, FAILED, EmptyDict, EmptyDict,
                            None, [orchestrator |-> runs[r].extracted[1].detail], None)
              /\ files' = _cleanup_file(files, runs[r].document_id)
              /\ runs' = [runs EXCEPT ![r] = EndedRun(@)]
         [] NoTextExtracted(runs[r].extracted[1].text) ->
              /\ jobs' = update_job_status(jobs, runs[r].job_id, FAILED, EmptyDict, EmptyDict,
                            None, [orchestrator |-> NoTextMessage], None)
              /\ files' = _cleanup_file(files, runs[r].document_id)
              /\ runs' = [runs EXCEPT ![r] = EndedRun(@)]
         [] OTHER ->
              /\ Cardinality({g \in GatheringRuns : runs[g].document_id = runs[r].document_id}) < MaxGathering
              /\ jobs' = update_job_status(jobs, runs[r].job_id, PROCESSING,
                            EmptyDict, EmptyDict,
                            None, EmptyDict, None)
              /\ runs' = [runs EXCEPT ![r].pc = "gathering",
                                      ![r].behaviours = behaviours,
                                      ![r].agents_status = [a \in OrchestratorAgents |-> PROCESSING]]
              /\ UNCHANGED files
    /\ ended' = EndedJobs(ended, jobs')
    /\ UNCHANGED <<documents, clock, responses, call>>

\* run_analysis_task from the return of the extraction to the fan-out of
\* analyze_document (or to the end of the run when there is no text)
run_analysis_task_dispatch(r, behaviours) ==
    /\ runs[r].pc = "extracted"
    /\ CASE runs[r].extracted[1].raised ->
              /\ jobs' = update_job_status(jobs, runs[r].job_id, FAILED, EmptyDict, EmptyDict,
                            None, [orchestrator |-> runs[r].extracted[1].detail], None)
              /\ files' = _cleanup_file(files, runs[r].document_id)
              /\ runs' = [runs EXCEPT ![r] = EndedRun(@)]
         [] NoTextExtracted(runs[r].extracted[1].text) ->
              /\ jobs' = update_job_status(jobs, runs[r].job_id, FAILED, EmptyDict, EmptyDict,
                            None, [orchestrator |-> NoTextMessage], None)
              /\ files' = _cleanup_file(files, runs[r].document_id)
              /\ runs' = [runs EXCEPT ![r] = EndedRun(@)]
         [] OTHER ->
              /\ Cardinality({g \in GatheringRuns : runs[g].document_id = runs[r].document_id}) < MaxGathering
              /\ jobs' = update_job_status(jobs, runs[r].job_id, PROCESSING,
                            [a \in OrchestratorAgents |-> PROCESSING], EmptyDict,
                            None, EmptyDict, None)
              /\ runs' = [runs EXCEPT ![r].pc = "gathering",
                                      ![r].behaviours = behaviours,
                                      ![r].agents_status = [a \in OrchestratorAgents |-> PROCESSING]]
              /\ UNCHANGED files
    /\ ended' = EndedJobs(ended, jobs')
    /\ UNCHANGED <<documents, clock, responses, call>>

\* a slip of run_and_update_agent: a failure cancels the siblings still running
AgentResolved_short_circuit(run, agent_name) ==
    LET result == _run_agent(execute(run.behaviours[agent_name]))
    IN IF result.raised
       THEN [run EXCEPT !.agents_status = [a \in DOMAIN @ |-> IF @[a] = PROCESSING THEN FAILED ELSE @[a]],
                        !.failed_agents = Append(@, [name |-> agent_name, message |-> result.value]),
                        !.results_payload = DictUpdate(@, [n \in {agent_name} |-> [error |-> result.value]])]
       ELSE [run EXCEPT !.agents_status[agent_name] = COMPLETED,
                        !.results_payload = DictUpdate(@, [n \in {agent_name} |-> result.value])]

\* a slip of run_and_update_agent: a failure starts the results over
AgentResolved_drops_results(run, agent_name) ==
    LET result == _run_agent(execute(run.behaviours[agent_name]))
    IN IF result.raised
       THEN [run EXCEPT !.agents_status[agent_name] = FAILED,
                        !.failed_agents = Append(@, [name |-> agent_name, message |-> result.value]),
                        !.results_payload = [n \in DOMAIN @ \cup {agent_name} |-> [error |-> result.value]]]
       ELSE [run EXCEPT !.agents_status[agent_name] = COMPLETED,
                        !.results_payload = DictUpdate(@, [n \in {agent_name} |-> result.value])]

\* the locals of analyze_document after run_and_update_agent's try/except
AgentResolved(run, agent_name) ==
    LET result == _run_agent(execute(run.behaviours[agent_name]))
    IN IF result.raised
       THEN [run EXCEPT !.agents_status[agent_name] = FAILED,
                        !.failed_agents = Append(@, [name |-> agent_name, message |-> result.value]),
                        !.results_payload = DictUpdate(@, [n \in {agent_name} |-> [error |-> result.value]])]
       ELSE [run EXCEPT !.agents_status[agent_name] = COMPLETED,
                        !.results_payload = DictUpdate(@, [n \in {agent_name} |-> result.value])]

\* run_and_update_agent from the return of agent.execute to its end
run_and_update_agent(r, agent_name) ==
    /\ runs[r].pc = "gathering"
    /\ runs[r].agents_status[agent_name] = PROCESSING
    /\ LET run == AgentResolved(runs[r], agent_name)
       IN /\ runs' = [runs EXCEPT ![r] = run]
          /\ jobs' = update_job_status(jobs, run.job_id, PROCESSING, run.agents_status,
                        run.results_payload, None, EmptyDict, None)
    /\ ended' = EndedJobs(ended, jobs')
    /\ UNCHANGED <<documents, files, clock, responses, call>>

\* a slip of the final write: the status goes first, end_time and metadata
\* are left for a later write
analyze_document_finalize_status_first(r) ==
    /\ runs[r].pc = "gathering"
    /\ \A a \in OrchestratorAgents : runs[r].agents_status[a] # PROCESSING
    /\ jobs' = update_job_status(jobs, runs[r].job_id, _determine_status(runs[r].agents_status),
                  runs[r].agents_status, runs[r].results_payload, None,
                  FailedDict(runs[r].failed_agents), None)
    /\ files' = _cleanup_file(files, runs[r].document_id)
    /\ runs' = [runs EXCEPT ![r] = EndedRun(@)]
    /\ ended' = EndedJobs(ended, jobs')
    /\ UNCHANGED <<documents, clock, responses, call>>

\* analyze_document after the gather, and the finally of run_analysis_task
analyze_document_finalize(r) ==
    /\ runs[r].pc = "gathering"
    /\ \A a \in OrchestratorAgents : runs[r].agents_status[a] # PROCESSING
    /\ jobs' = update_job_status(jobs, runs[r].job_id, _determine_status(runs[r].agents_status),
                  runs[r].agents_status, runs[r].results_payload, Some(clock),
                  FailedDict(runs[r].failed_agents),
                  Some(BuildMetadata(runs[r].agents_status, runs[r].failed_agents)))
    /\ files' = _cleanup_file(files, runs[r].document_id)
    /\ runs' = [runs EXCEPT ![r] = EndedRun(@)]
    /\ ended' = EndedJobs(ended, jobs')
    /\ UNCHANGED <<documents, clock, responses, call>>

Next ==
    \/ \E kind \in FileKinds : upload_document(kind)
    \/ \E d \in AllDocIds : post_analyze(d)
    \/ \E r \in DOMAIN runs : run_analysis_task_start(r)
    \/ \E r \in DOMAIN runs : extract_text(r)
    \/ \E r \in DOMAIN runs, bs \in Scenarios : run_analysis_task_dispatch(r, bs)
    \/ \E r \in DOMAIN runs, a \in OrchestratorAgents : run_and_update_agent(r, a)
    \/ \E r \in DOMAIN runs : analyze_document_finalize(r)

Spec == Init /\ [][Next]_vars

----------------------------------------------------------------------------
(* One orchestration run: a document has been uploaded and admitted once;   *)
(* the agents behave in every combination.                                  *)

InitOrch ==
    \E kind \in FileKinds :
        /\ documents = {DocIds[1]}
        /\ files = [d \in AllDocIds |-> IF d = DocIds[1] THEN kind ELSE "missing"]
        /\ jobs = save_job(<<>>, DocIds[1], 1, 1)
        /\ clock = 1
        /\ runs = <<NewRun(1, DocIds[1])>>
        /\ responses = <<[document_id |-> DocIds[1], code |-> 202, job_id |-> 1, status |-> PENDING]>>
        /\ ended = {}
        /\ call = None

NextOrch ==
    \/ \E r \in DOMAIN runs : run_analysis_task_start(r)
    \/ \E r \in DOMAIN runs : extract_text(r)
    \/ \E r \in DOMAIN runs, bs \in AllScenarios : run_analysis_task_dispatch(r, bs)
    \/ \E r \in DOMAIN runs, a \in OrchestratorAgents : run_and_update_agent(r, a)
    \/ \E r \in DOMAIN runs : analyze_document_finalize(r)

SpecOrch == InitOrch /\ [][NextOrch]_vars

\* the event loop runs every task that is ready, the worker thread of the
\* extraction returns, and every process() returns, raises or is cut off by
\* its timeout: a run that can take a step takes it
SpecOrchLive == SpecOrch /\ WF_vars(NextOrch)

----------------------------------------------------------------------------
(* GET /results/{job_id} asked at any moment of one orchestration run.      *)

\* the keys of some dict as list(d.keys()) gives them; the order of insertion
\* is not kept by the mappings here, so this is one enumeration of the keys
RECURSIVE KeyList(_)
KeyList(keys) ==
    IF keys = {} THEN <<>>
    ELSE LET k == CHOOSE x \in keys : TRUE
         IN <<k>> \o KeyList(keys \ {k})

\* build_section of get_results: the section of one agent in the answer
build_section(job, agent_key) ==
    IF agent_key \in DOMAIN job.error_messages
    THEN Some([error |-> job.error_messages[agent_key]])
    ELSE IF agent_key \notin DOMAIN job.results
    THEN None
    ELSE Some(job.results[agent_key])

\* the metadata of the answer: the stored one completed from error_messages,
\* or one built from the record when none is stored
ResultsMetadata(job) ==
    IF job.metadata = None
    THEN [ parallel_execution |-> TRUE,
           agents_completed |-> CountStatus(job.agents_status, COMPLETED),
           agents_failed |-> CountStatus(job.agents_status, FAILED),
           warning |-> IF job.error_messages # EmptyDict
                       THEN Some("Some agents failed to complete") ELSE None,
           failed_agents |-> KeyList(DOMAIN job.error_messages) ]
    ELSE [ job.metadata[1] EXCEPT
             !.warning = IF @ = None /\ job.error_messages # EmptyDict
                         THEN Some("Some agents failed to complete") ELSE @,
             !.failed_agents = IF @ = <<>> /\ job.error_messages # EmptyDict
                               THEN KeyList(DOMAIN job.error_messages) ELSE @ ]

\* GET /results/{job_id}: the answer
get_results(js, job_id) ==
    IF job_id \notin DOMAIN js
    THEN [code |-> 404, detail |-> "Job not found."]
    ELSE LET job == js[job_id]
         IN IF job.status \in {PENDING, PROCESSING}
            THEN [code |-> 202, job_id |-> job_id, document_id |-> job.document_id,
                  status |-> job.status, message |-> "Analysis in progress"]
            ELSE IF job.status = FAILED /\ job.results = EmptyDict
            THEN [code |-> 200, job_id |-> job_id, document_id |-> job.document_id,
                  status |-> job.status, errors |-> job.error_messages]
            ELSE [code |-> IF job.status = PARTIAL THEN 206 ELSE 200,
                  job_id |-> job_id, document_id |-> job.document_id, status |-> job.status,
                  results |-> [summary |-> build_section(job, "summarizer"),
                               entities |-> build_section(job, "entity_extractor"),
                               sentiment |-> build_section(job, "sentiment_analyzer")],
                  metadata |-> ResultsMetadata(job)]

\* the handler of GET /results/{job_id}; `call` keeps the record it read and
\* the answer it gave
get_results_call(job_id) ==
    /\ call' = [op |-> "get_results", job_id |-> job_id,
                job |-> IF job_id \in DOMAIN jobs THEN Some(jobs[job_id]) ELSE None,
                response |-> get_results(jobs, job_id)]
    /\ call' # call
    /\ UNCHANGED engine_vars

NextQuery ==
    \/ NextOrch
    \/ \E job_id \in 1..(Len(jobs) + 1) : get_results_call(job_id)

SpecQuery == InitOrch /\ [][NextQuery]_vars

----------------------------------------------------------------------------
(* The same outcomes in two orders: two documents have been uploaded and    *)
(* admitted once each, and every agent behaves for both in the same way.    *)

OrderDocIds == <<"doc_a", "doc_b">>

\* the behaviours held fixed for the two runs
OrderBehaviours == {"returns_dict", "raises", "times_out"}

InitOrder ==
    /\ documents = {OrderDocIds[1], OrderDocIds[2]}
    /\ files = [d \in {OrderDocIds[1], OrderDocIds[2]} |-> "text"]
    /\ jobs = save_job(save_job(<<>>, OrderDocIds[1], 1, 1), OrderDocIds[2], 2, 2)
    /\ clock = 2
    /\ runs = <<NewRun(1, OrderDocIds[1]), NewRun(2, OrderDocIds[2])>>
    /\ responses = <<[document_id |-> OrderDocIds[1], code |-> 202, job_id |-> 1, status |-> PENDING],
                     [document_id |-> OrderDocIds[2], code |-> 202, job_id |-> 2, status |-> PENDING]>>
    /\ ended = {}
    /\ \E behaviours \in [OrchestratorAgents -> OrderBehaviours] :
          call = [op |-> "analyze_document", behaviours |-> behaviours]

NextOrder ==
    \/ \E r \in DOMAIN runs : run_analysis_task_start(r)
    \/ \E r \in DOMAIN runs : extract_text(r)
    \/ \E r \in DOMAIN runs : run_analysis_task_dispatch(r, call.behaviours)
    \/ \E r \in DOMAIN runs, a \in OrchestratorAgents : run_and_update_agent(r, a)
    \/ \E r \in DOMAIN runs : analyze_document_finalize(r)

SpecOrder == InitOrder /\ [][NextOrder]_vars

----------------------------------------------------------------------------
(* Two documents: both have been uploaded, each can be admitted, and the    *)
(* runs of the two interleave.                                              *)

\* POST /analyze calls issued for the pair
PairAdmissions == 2

InitPair ==
    /\ documents = {OrderDocIds[1], OrderDocIds[2]}
    /\ files = [d \in {OrderDocIds[1], OrderDocIds[2]} |-> "text"]
    /\ jobs = <<>>
    /\ clock = 0
    /\ runs = <<>>
    /\ responses = <<>>
    /\ ended = {}
    /\ call = None

NextPair ==
    \/ \E d \in documents : Len(responses) < PairAdmissions /\ post_analyze(d)
    \/ \E r \in DOMAIN runs : run_analysis_task_start(r)
    \/ \E r \in DOMAIN runs : extract_text(r)
    \/ \E r \in DOMAIN runs, bs \in Scenarios : run_analysis_task_dispatch(r, bs)
    \/ \E r \in DOMAIN runs, a \in OrchestratorAgents : run_and_update_agent(r, a)
    \/ \E r \in DOMAIN runs : analyze_document_finalize(r)

SpecPair == InitPair /\ [][NextPair]_vars

----------------------------------------------------------------------------
(* get_latest_job_for_document on every Store that save_job and            *)
(* update_job_status build for two documents                                *)

\* jobs saved in one behaviour
MaxJobs == 3

\* save_job for a document; datetime.now() may not have advanced since the
\* job saved before
save_job_call(document_id, now) ==
    /\ Len(jobs) < MaxJobs
    /\ jobs' = save_job(jobs, document_id, Len(jobs) + 1, now)
    /\ clock' = now
    /\ UNCHANGED <<documents, files, runs, responses, ended, call>>

\* a job is failed by its run
fail_job_call(job_id) ==
    /\ jobs[job_id].status = PENDING
    /\ jobs' = update_job_status(jobs, job_id, FAILED, EmptyDict, EmptyDict, None,
                                 [orchestrator |-> NoTextMessage], None)
    /\ ended' = EndedJobs(ended, jobs')
    /\ UNCHANGED <<documents, files, clock, runs, responses, call>>

get_latest_job_for_document_call(document_id) ==
    /\ call' = [ op |-> "get_latest_job_for_document", document_id |-> document_id,
                 returned |-> IF get_latest_job_for_document(jobs, document_id) = 0 THEN None
                              ELSE Some(jobs[get_latest_job_for_document(jobs, document_id)]) ]
    /\ call' # call
    /\ UNCHANGED engine_vars

NextLatest ==
    \/ \E d \in documents, now \in {clock, clock + 1} : save_job_call(d, now)
    \/ \E job_id \in DOMAIN jobs : fail_job_call(job_id)
    \/ \E d \in documents : get_latest_job_for_document_call(d)

SpecLatest == InitPair /\ [][NextLatest]_vars

----------------------------------------------------------------------------
(* StorageManager.update_job_status for every argument: a job has just been *)
(* saved, and `call` holds the last call made on the Store.                 *)

\* update_job_status calls made in one behaviour
MaxUpdates == 2

\* all dicts with keys among `keys` and values among `values`
Dicts(keys, values) ==
    UNION {[ks -> values] : ks \in SUBSET keys}

\* the arguments of the calls
UpdateStatuses == {PROCESSING, PARTIAL}
UpdateAgentsStatus ==
    Dicts({"summarizer"}, {COMPLETED}) \cup Dicts({"entity_extractor"}, {COMPLETED, FAILED})
       \cup {[summarizer |-> COMPLETED, entity_extractor |-> FAILED]}
UpdateResults ==
    {EmptyDict, [summarizer |-> [data |-> "payload"]], [entity_extractor |-> [error |-> ProcessErrorMessage]]}
UpdateErrorMessages == {EmptyDict, [entity_extractor |-> ProcessErrorMessage]}
UpdateEndTimes == {None, Some(2)}
UpdateMetadata == {None, Some(BuildMetadata([summarizer |-> COMPLETED], <<>>))}

\* calls made so far
Updates == IF call = None THEN 0 ELSE call.n

InitUpdate ==
    /\ documents = {DocIds[1]}
    /\ files = [d \in AllDocIds |-> "text"]
    /\ jobs = save_job(<<>>, DocIds[1], 1, 1)
    /\ clock = 1
    /\ runs = <<>>
    /\ responses = <<>>
    /\ ended = {}
    /\ call = None

update_job_status_call(job_id, status, agents_status, results, end_time, error_messages, metadata) ==
    /\ Updates < MaxUpdates
    /\ jobs' = update_job_status(jobs, job_id, status, agents_status, results, end_time,
                                 error_messages, metadata)
    /\ call' = [ op |-> "update_job_status", n |-> Updates + 1, job_id |-> job_id,
                 status |-> status, agents_status |-> agents_status, results |-> results,
                 end_time |-> end_time, error_messages |-> error_messages,
                 metadata |-> metadata, returned |-> (job_id \in DOMAIN jobs) ]
    /\ UNCHANGED <<documents, files, clock, runs, responses, ended>>

NextUpdate ==
    \E job_id \in 1..2, status \in UpdateStatuses, agents_status \in UpdateAgentsStatus,
       results \in UpdateResults, end_time \in UpdateEndTimes,
       error_messages \in UpdateErrorMessages, metadata \in UpdateMetadata :
          update_job_status_call(job_id, status, agents_status, results, end_time,
                                 error_messages, metadata)

SpecUpdate == InitUpdate /\ [][NextUpdate]_vars

----------------------------------------------------------------------------
(* The Store lock: tasks call the Store operations, whose bodies are taken  *)
(* statement by statement; `call` holds the lock, the Store as the last     *)
(* finished operation left it, and where each caller is.                    *)

\* tasks that call the Store
MaxCallers == 2

\* Store operations each task calls
MaxStoreCalls == 2

Callers == 1..MaxCallers

StoreReaders == {"get_document", "get_job", "get_latest_job_for_document", "get_all_jobs"}

\* the calls the tasks make
StoreRequests ==
    [ op : StoreReaders \cup {"save_document", "save_job"}, document_id : {DocIds[1]}, job_id : {1},
      status : {PENDING}, agents_status : {EmptyDict} ]
       \cup [ op : {"update_job_status"}, document_id : {DocIds[1]}, job_id : {1},
              status : {PROCESSING, PARTIAL},
              agents_status : {[summarizer |-> COMPLETED, entity_extractor |-> FAILED]} ]

\* what a read operation returns on a Store
StoreAnswer(docs, js, request) ==
    CASE request.op = "get_document" -> request.document_id \in docs
      [] request.op = "get_job" ->
            IF request.job_id \in DOMAIN js THEN Some(js[request.job_id]) ELSE None
      [] request.op = "get_latest_job_for_document" ->
            IF get_latest_job_for_document(js, request.document_id) = 0 THEN None
            ELSE Some(js[get_latest_job_for_document(js, request.document_id)])
      [] OTHER -> js

\* the documents and jobs a whole operation leaves of a Store
StoreEffect(docs, js, now, request) ==
    CASE request.op = "save_document" -> <<docs \cup {request.document_id}, js>>
      [] request.op = "save_job" ->
            <<docs, save_job(js, request.document_id, Len(js) + 1, now)>>
      [] request.op = "update_job_status" ->
            <<docs, update_job_status(js, request.job_id, request.status, request.agents_status,
                                      EmptyDict, None, EmptyDict, None)>>
      [] OTHER -> <<docs, js>>

\* a slip of the lock: acquire never waits
CanAcquire_always(lock) ==
    TRUE

\* asyncio.Lock.acquire returns when the lock is not held
CanAcquire(lock) ==
    lock = 0

InCriticalSection == {"locked", "half", "finished"}

InitLock ==
    /\ documents = {}
    /\ files = [d \in AllDocIds |-> "missing"]
    /\ jobs = <<>>
    /\ clock = 0
    /\ runs = <<>>
    /\ responses = <<>>
    /\ ended = {}
    /\ call = [ op |-> "store", lock |-> 0, documents |-> {}, jobs |-> <<>>,
                callers |-> [t \in Callers |->
                               [pc |-> "idle", request |-> None, returned |-> None, calls |-> 0]] ]

\* a task reaches `async with self._lock` of a Store operation
store_call(t, request) ==
    /\ call.callers[t].pc = "idle"
    /\ call.callers[t].calls < MaxStoreCalls
    /\ call' = [call EXCEPT !.callers[t].pc = "waiting",
                            !.callers[t].request = Some(request),
                            !.callers[t].returned = None]
    /\ UNCHANGED engine_vars

\* `async with self._lock`: entry
lock_acquire(t) ==
    /\ call.callers[t].pc = "waiting"
    /\ CanAcquire(call.lock)
    /\ call' = [call EXCEPT !.lock = t, !.callers[t].pc = "locked"]
    /\ UNCHANGED engine_vars

\* the next statements of the operation's body
store_body(t) ==
    /\ call.callers[t].pc \in {"locked", "half"}
    /\ LET request == call.callers[t].request[1]
           pc == call.callers[t].pc
       IN CASE request.op = "update_job_status" /\ pc = "locked" /\ request.job_id \notin DOMAIN jobs ->
                 /\ call' = [call EXCEPT !.callers[t].pc = "finished",
                                         !.callers[t].returned = Some(FALSE)]
                 /\ UNCHANGED <<documents, jobs, clock>>
            [] request.op = "update_job_status" /\ pc = "locked" /\ request.job_id \in DOMAIN jobs ->
                 /\ jobs' = update_job_status(jobs, request.job_id, request.status, EmptyDict,
                                              EmptyDict, None, EmptyDict, None)
                 /\ call' = [call EXCEPT !.callers[t].pc = "half"]
                 /\ UNCHANGED <<documents, clock>>
            [] request.op = "update_job_status" /\ pc = "half" ->
                 /\ jobs' = update_job_status(jobs, request.job_id, request.status,
                                              request.agents_status, EmptyDict, None, EmptyDict, None)
                 /\ call' = [call EXCEPT !.callers[t].pc = "finished",
                                         !.callers[t].returned = Some(TRUE)]
                 /\ UNCHANGED <<documents, clock>>
            [] request.op = "save_document" ->
                 /\ documents' = documents \cup {request.document_id}
                 /\ call' = [call EXCEPT !.callers[t].pc = "finished",
                                         !.callers[t].returned = Some(request.document_id)]
                 /\ UNCHANGED <<jobs, clock>>
            [] request.op = "save_job" ->
                 /\ clock' = clock + 1
                 /\ jobs' = save_job(jobs, request.document_id, Len(jobs) + 1, clock + 1)
                 /\ call' = [call EXCEPT !.callers[t].pc = "finished",
                                         !.callers[t].returned = Some(Len(jobs) + 1)]
                 /\ UNCHANGED documents
            [] OTHER ->
                 /\ call' = [call EXCEPT !.callers[t].pc = "finished",
                                         !.callers[t].returned =
                                             Some(StoreAnswer(documents, jobs, request))]
                 /\ UNCHANGED <<documents, jobs, clock>>
    /\ ended' = EndedJobs(ended, jobs')
    /\ UNCHANGED <<files, runs, responses>>

\* `async with self._lock`: exit
lock_release(t) ==
    /\ call.callers[t].pc = "finished"
    /\ call' = [call EXCEPT !.lock = 0,
                            !.documents = documents,
                            !.jobs = jobs,
                            !.callers[t].pc = "idle",
                            !.callers[t].calls = @ + 1]
    /\ UNCHANGED engine_vars

NextLock ==
    \/ \E t \in Callers, request \in StoreRequests : store_call(t, request)
    \/ \E t \in Callers : lock_acquire(t)
    \/ \E t \in Callers : store_body(t)
    \/ \E t \in Callers : lock_release(t)

SpecLock == InitLock /\ [][NextLock]_vars

----------------------------------------------------------------------------
(* The helpers run on their own: the engine is idle and `call` holds the    *)
(* call in progress.                                                        *)

\* the application right after start-up
EngineIdle ==
    /\ documents = {}
    /\ files = [d \in AllDocIds |-> "missing"]
    /\ jobs = <<>>
    /\ clock = 0
    /\ runs = <<>>
    /\ responses = <<>>
    /\ ended = {}

(* BaseDocumentAgent.execute for every process() and every timing *)

\* largest timeout_seconds of an agent, in seconds
MaxTimeout == 3

\* what process() does when it is left to finish
ProcessOutcomes == {"returns_dict", "returns_non_dict", "raises", "raises_timeout_error"}

\* seconds process() takes to finish; beyond every timeout it hangs
Durations == 0..(MaxTimeout + 1)

\* asyncio.wait_for(process(), timeout): what the guard sees of a process()
\* that finishes after `duration`; at the very deadline either can win
ObservedBehaviours(outcome, duration, timeout_seconds) ==
    {b \in {outcome} : duration <= timeout_seconds}
        \cup {b \in {"times_out"} : duration >= timeout_seconds}

InitEnvelope ==
    /\ EngineIdle
    /\ \E outcome \in ProcessOutcomes, duration \in Durations, timeout_seconds \in 1..MaxTimeout :
          call = [op |-> "execute", pc |-> "called", outcome |-> outcome, duration |-> duration,
                  timeout_seconds |-> timeout_seconds, envelope |-> None]

\* agent.execute(document_text), from the call to the return
execute_call ==
    /\ call.op = "execute"
    /\ call.pc = "called"
    /\ \E b \in ObservedBehaviours(call.outcome, call.duration, call.timeout_seconds) :
          call' = [call EXCEPT !.pc = "returned", !.envelope = Some(execute(b))]
    /\ UNCHANGED engine_vars

NextEnvelope == execute_call

SpecEnvelope == InitEnvelope /\ [][NextEnvelope]_vars

(* retry_with_backoff for every sequence of attempt outcomes *)

\* largest max_attempts a caller passes
MaxAttempts == 3

\* what one call of the retried operation does
AttemptOutcomes == {"succeeds", "raises_ConnectionError", "raises_ValueError", "hangs"}

\* the retry_exceptions tuples callers pass: (Exception,), and two narrower ones
RetryExceptionSets ==
    { {"ConnectionError", "ValueError", "TimeoutError"},
      {"ConnectionError", "TimeoutError"},
      {"ConnectionError"} }

\* the exception an attempt ends with ("" when it returns, "never" when it
\* hangs and no call_timeout cuts it off)
AttemptFailure(outcome, call_timeout) ==
    CASE outcome = "succeeds" -> ""
      [] outcome = "raises_ConnectionError" -> "ConnectionError"
      [] outcome = "raises_ValueError" -> "ValueError"
      [] OTHER -> IF call_timeout THEN "TimeoutError" ELSE "never"

\* a slip of the bound: one attempt too many
GivesUp_off_by_one(attempt, max_attempts) ==
    attempt > max_attempts

\* if attempt >= max_attempts: raise
GivesUp(attempt, max_attempts) ==
    attempt >= max_attempts

\* a slip of the loop: the result is kept but the loop goes on to the backoff
Attempted_without_return(c) ==
    LET attempt == c.attempt + 1
        failure == AttemptFailure(c.plan[attempt], c.call_timeout)
        called == [c EXCEPT !.attempt = attempt, !.calls = Append(@, attempt)]
    IN IF failure = "never" THEN [called EXCEPT !.pc = "hung"]
       ELSE IF failure \notin c.retry_exceptions \cup {""}
       THEN [called EXCEPT !.pc = "raised", !.error = Some([attempt |-> attempt, class |-> failure])]
       ELSE IF GivesUp(attempt, c.max_attempts)
       THEN IF failure = ""
            THEN [called EXCEPT !.pc = "returned", !.result = Some([attempt |-> attempt])]
            ELSE [called EXCEPT !.pc = "raised", !.error = Some([attempt |-> attempt, class |-> failure])]
       ELSE [called EXCEPT !.pc = "sleeping"]

\* a slip of the except clause: every exception is caught, whatever
\* retry_exceptions holds
Attempted_retries_everything(c) ==
    LET attempt == c.attempt + 1
        failure == AttemptFailure(c.plan[attempt], c.call_timeout)
        called == [c EXCEPT !.attempt = attempt, !.calls = Append(@, attempt)]
    IN IF failure = "never" THEN [called EXCEPT !.pc = "hung"]
       ELSE IF failure = ""
       THEN [called EXCEPT !.pc = "returned", !.result = Some([attempt |-> attempt])]
       ELSE IF GivesUp(attempt, c.max_attempts)
       THEN [called EXCEPT !.pc = "raised", !.error = Some([attempt |-> attempt, class |-> failure])]
       ELSE [called EXCEPT !.pc = "sleeping"]

\* one pass of the while loop up to its suspension: the attempt, then return,
\* raise, or go on to the backoff
Attempted(c) ==
    LET attempt == c.attempt + 1
        failure == AttemptFailure(c.plan[attempt], c.call_timeout)
        called == [c EXCEPT !.attempt = attempt, !.calls = Append(@, attempt)]
    IN IF failure = "never" THEN [called EXCEPT !.pc = "hung"]
       ELSE IF failure = ""
       THEN [called EXCEPT !.pc = "returned", !.result = Some([attempt |-> attempt])]
       ELSE IF failure \notin c.retry_exceptions
       THEN [called EXCEPT !.pc = "raised", !.error = Some([attempt |-> attempt, class |-> failure])]
       ELSE IF GivesUp(attempt, c.max_attempts)
       THEN [called EXCEPT !.pc = "raised", !.error = Some([attempt |-> attempt, class |-> failure])]
       ELSE [called EXCEPT !.pc = "sleeping"]

InitRetry ==
    /\ EngineIdle
    /\ \E max_attempts \in 1..MaxAttempts, plan \in [1..(MaxAttempts + 1) -> AttemptOutcomes],
          retry_exceptions \in RetryExceptionSets, call_timeout \in BOOLEAN :
          call = [op |-> "retry_with_backoff", pc |-> "attempting", max_attempts |-> max_attempts,
                  plan |-> plan, retry_exceptions |-> retry_exceptions, call_timeout |-> call_timeout,
                  attempt |-> 0, calls |-> <<>>, sleeps |-> <<>>, result |-> None, error |-> None]

\* await func(*args, **kwargs) and what follows it
retry_attempt ==
    /\ call.op = "retry_with_backoff"
    /\ call.pc = "attempting"
    /\ call' = Attempted(call)
    /\ UNCHANGED engine_vars

\* await asyncio.sleep(sleep_for)
retry_sleep ==
    /\ call.op = "retry_with_backoff"
    /\ call.pc = "sleeping"
    /\ call' = [call EXCEPT !.pc = "attempting", !.sleeps = Append(@, call.attempt)]
    /\ UNCHANGED engine_vars

NextRetry == retry_attempt \/ retry_sleep

SpecRetry == InitRetry /\ [][NextRetry]_vars

(* The backoff of retry_with_backoff for every delay setting. Delays are   *)
(* whole numbers of 1/BackoffScale second, waits of 1/10000 of that.        *)

RECURSIVE Pow(_, _)
Pow(base, exponent) ==
    IF exponent = 0 THEN 1 ELSE base * Pow(base, exponent - 1)

\* the multipliers are halves: the delays times this are whole numbers
BackoffScale == Pow(2, MaxAttempts)

\* initial_delay and max_delay, in seconds
InitialDelays == {0, 1, 4}
MaxDelays == {2, 10}

\* multiplier, as a fraction
Multipliers == {[num |-> 1, den |-> 2], [num |-> 1, den |-> 1], [num |-> 3, den |-> 2], [num |-> 2, den |-> 1]}

\* jitter, in hundredths
Jitters == {0, 10, 100, 150}

\* random.random(), in hundredths: a value of [0, 1)
RandomValues == {0, 25, 50, 75, 99}

\* initial_delay * (multiplier ** (attempt - 1))
GrownDelay(c, attempt) ==
    (c.initial_delay * BackoffScale * Pow(c.multiplier.num, attempt - 1))
        \div Pow(c.multiplier.den, attempt - 1)

\* a slip of the delay: max_delay is not applied
BaseDelay_uncapped(c, attempt) ==
    GrownDelay(c, attempt)

\* delay = min(initial_delay * (multiplier ** (attempt - 1)), max_delay)
BaseDelay(c, attempt) ==
    IF GrownDelay(c, attempt) < c.max_delay * BackoffScale
    THEN GrownDelay(c, attempt)
    ELSE c.max_delay * BackoffScale

\* sleep_for = max(0.0, delay + delay * jitter * (random.random() * 2 - 1))
SleepFor(c, attempt, random) ==
    LET delay == BaseDelay(c, attempt)
        jitter_amount == delay * c.jitter * (random * 2 - 100)
    IN IF delay * 10000 + jitter_amount > 0 THEN delay * 10000 + jitter_amount ELSE 0

InitBackoff ==
    /\ EngineIdle
    /\ \E initial_delay \in InitialDelays, max_delay \in MaxDelays,
          multiplier \in Multipliers, jitter \in Jitters :
          call = [op |-> "backoff", initial_delay |-> initial_delay, max_delay |-> max_delay,
                  multiplier |-> multiplier, jitter |-> jitter, waits |-> <<>>]

\* the backoff after one more failed attempt
backoff_wait(random) ==
    /\ call.op = "backoff"
    /\ Len(call.waits) < MaxAttempts
    /\ LET attempt == Len(call.waits) + 1
       IN call' = [call EXCEPT !.waits = Append(@, [delay |-> BaseDelay(call, attempt),
                                                    sleep_for |-> SleepFor(call, attempt, random)])]
    /\ UNCHANGED engine_vars

NextBackoff == \E random \in RandomValues : backoff_wait(random)

SpecBackoff == InitBackoff /\ [][NextBackoff]_vars

(* SummarizerAgent.process: the remote call under retry_with_backoff, then *)
(* the local decoding and validation of what it returned                   *)

\* max_attempts as process() passes it to retry_with_backoff
ProcessMaxAttempts == 3

\* what the remote call returns when it succeeds
RawOutputs == {"valid_json", "malformed_json", "non_json", "text_missing"}

MalformedJsonMessage == "Summarizer produced malformed JSON."
NonJsonMessage == "Summarizer produced non-JSON output."
TextMissingMessage == "Summary text missing from agent response."
SummarizationFailedMessage == "Summarization failed"

\* SummarizerAgent._parse_output: the ValueError it raises, or the parsed dict
_parse_output(raw_output) ==
    CASE raw_output = "malformed_json" -> [raised |-> TRUE, message |-> MalformedJsonMessage]
      [] raw_output = "non_json" -> [raised |-> TRUE, message |-> NonJsonMessage]
      [] raw_output = "text_missing" -> [raised |-> TRUE, message |-> TextMissingMessage]
      [] OTHER -> [raised |-> FALSE, message |-> ""]

\* what the Orchestrator records for a task whose process() ended this way
RecordedTask(raised, message) ==
    LET envelope == IF raised
                    THEN [execute("raises") EXCEPT !.message = message]
                    ELSE execute("returns_dict")
        result == _run_agent(envelope)
    IN [ status |-> IF result.raised THEN FAILED ELSE COMPLETED,
         result |-> IF result.raised THEN [error |-> result.value] ELSE result.value ]

NoLlmMessage == "Summarizer requires an LLM client. Configure provider credentials."

\* a slip of process(): the LLM client is not looked at before the remote call
Started_without_check(c) ==
    [c EXCEPT !.pc = "attempting"]

\* process() up to retry_with_backoff: `if not self.llm: raise RuntimeError`
Started(c) ==
    IF ~c.llm
    THEN [c EXCEPT !.pc = "done", !.task = Some(RecordedTask(TRUE, NoLlmMessage))]
    ELSE [c EXCEPT !.pc = "attempting"]

\* a slip of process(): a response that fails validation is asked for again
Processed_retries_validation(c) ==
    IF c.pc = "raised"
    THEN [c EXCEPT !.pc = "done", !.task = Some(RecordedTask(TRUE, SummarizationFailedMessage))]
    ELSE LET parsed == _parse_output(c.raw_output)
         IN IF parsed.raised /\ c.attempt < c.max_attempts
            THEN [c EXCEPT !.pc = "sleeping"]
            ELSE [c EXCEPT !.pc = "done", !.task = Some(RecordedTask(parsed.raised, parsed.message))]

\* process() after retry_with_backoff: the except clause, or _parse_output
\* and the return
Processed(c) ==
    IF c.pc = "raised"
    THEN [c EXCEPT !.pc = "done", !.task = Some(RecordedTask(TRUE, SummarizationFailedMessage))]
    ELSE LET parsed == _parse_output(c.raw_output)
         IN [c EXCEPT !.pc = "done", !.task = Some(RecordedTask(parsed.raised, parsed.message))]

InitProcess ==
    /\ EngineIdle
    /\ \E plan \in [1..ProcessMaxAttempts -> AttemptOutcomes], raw_output \in RawOutputs,
          llm \in BOOLEAN :
          call = [op |-> "process", pc |-> "started", llm |-> llm,
                  max_attempts |-> ProcessMaxAttempts,
                  plan |-> plan, retry_exceptions |-> {"ConnectionError", "ValueError", "TimeoutError"},
                  call_timeout |-> TRUE, attempt |-> 0, calls |-> <<>>, sleeps |-> <<>>,
                  result |-> None, error |-> None, raw_output |-> raw_output, task |-> None]

\* process() from its start to the call of retry_with_backoff
process_start ==
    /\ call.op = "process"
    /\ call.pc = "started"
    /\ call' = Started(call)
    /\ UNCHANGED engine_vars

\* one attempt of crew.kickoff_async inside retry_with_backoff
process_attempt ==
    /\ call.op = "process"
    /\ call.pc = "attempting"
    /\ call' = Attempted(call)
    /\ UNCHANGED engine_vars

\* the backoff between two attempts
process_sleep ==
    /\ call.op = "process"
    /\ call.pc = "sleeping"
    /\ call' = [call EXCEPT !.pc = "attempting", !.sleeps = Append(@, call.attempt)]
    /\ UNCHANGED engine_vars

\* process() from the end of retry_with_backoff to its own end
process_finish ==
    /\ call.op = "process"
    /\ call.pc \in {"returned", "raised"}
    /\ call' = Processed(call)
    /\ UNCHANGED engine_vars

NextProcess == process_start \/ process_attempt \/ process_sleep \/ process_finish

SpecProcess == InitProcess /\ [][NextProcess]_vars

(* The two timeouts of a task: timeout_guard around process() and the     *)
(* call_timeout process() gives retry_with_backoff; time in whole seconds   *)

\* values of settings.agent_timeout_seconds
AgentTimeouts == 1..MaxTimeout

\* self.timeout_seconds and call_timeout are both settings.agent_timeout_seconds
InitCeiling ==
    /\ EngineIdle
    /\ \E agent_timeout_seconds \in AgentTimeouts,
          plan \in [1..ProcessMaxAttempts -> AttemptOutcomes] :
          call = [op |-> "ceiling", pc |-> "attempting",
                  timeout_seconds |-> agent_timeout_seconds,
                  call_timeout_seconds |-> agent_timeout_seconds,
                  elapsed |-> 0, max_attempts |-> ProcessMaxAttempts, plan |-> plan,
                  retry_exceptions |-> {"ConnectionError", "ValueError", "TimeoutError"},
                  call_timeout |-> TRUE, attempt |-> 0, calls |-> <<>>, sleeps |-> <<>>,
                  result |-> None, error |-> None]

\* one attempt under the two timers: an attempt that hangs lasts
\* call_timeout seconds; when timeout_seconds have elapsed by then, the
\* wait_for of timeout_guard, set first, cancels process()
CeilingAttempted(c) ==
    LET hangs == c.plan[c.attempt + 1] = "hangs"
        elapsed == c.elapsed + IF hangs THEN c.call_timeout_seconds ELSE 0
    IN IF elapsed >= c.timeout_seconds
       THEN [c EXCEPT !.pc = "ceiling", !.elapsed = c.timeout_seconds,
                      !.attempt = @ + 1, !.calls = Append(@, c.attempt + 1)]
       ELSE [Attempted(c) EXCEPT !.elapsed = elapsed]

ceiling_attempt ==
    /\ call.op = "ceiling"
    /\ call.pc = "attempting"
    /\ call' = CeilingAttempted(call)
    /\ UNCHANGED engine_vars

\* the backoff, shorter than a second
ceiling_sleep ==
    /\ call.op = "ceiling"
    /\ call.pc = "sleeping"
    /\ call' = [call EXCEPT !.pc = "attempting", !.sleeps = Append(@, call.attempt)]
    /\ UNCHANGED engine_vars

NextCeiling == ceiling_attempt \/ ceiling_sleep

SpecCeiling == InitCeiling /\ [][NextCeiling]_vars

(* calculate_progress for every task-status map *)

\* the status values a map given to calculate_progress can hold
ProgressStatuses == {PENDING, PROCESSING, COMPLETED, FAILED, PARTIAL}

\* the maps given to calculate_progress: any of the agents, any status
ProgressMaps ==
    UNION {[names -> ProgressStatuses] : names \in SUBSET OrchestratorAgents}

\* round(numerator / denominator * 100, 2), in hundredths of a percent; a
\* tie goes to the even neighbour
RoundedPercent(numerator, denominator) ==
    LET scaled == 10000 * numerator
        quotient == scaled \div denominator
        remainder == scaled % denominator
    IN IF 2 * remainder < denominator THEN quotient
       ELSE IF 2 * remainder > denominator THEN quotient + 1
       ELSE IF quotient % 2 = 0 THEN quotient ELSE quotient + 1

\* a slip of calculate_progress: failed tasks count as done
calculate_progress_counts_failed(agents_status) ==
    IF DOMAIN agents_status = {} THEN 0
    ELSE RoundedPercent(CountStatus(agents_status, COMPLETED) + CountStatus(agents_status, FAILED),
                        Cardinality(DOMAIN agents_status))

\* helpers.calculate_progress, in hundredths of a percent
calculate_progress(agents_status) ==
    IF DOMAIN agents_status = {} THEN 0
    ELSE RoundedPercent(CountStatus(agents_status, COMPLETED), Cardinality(DOMAIN agents_status))

InitProgress ==
    /\ EngineIdle
    /\ \E agents_status \in ProgressMaps :
          call = [op |-> "calculate_progress", pc |-> "called", argument |-> agents_status,
                  agents_status |-> agents_status, progress |-> None]

\* calculate_progress(agents_status), from the call to the return
calculate_progress_call ==
    /\ call.op = "calculate_progress"
    /\ call.pc = "called"
    /\ call' = [call EXCEPT !.pc = "returned",
                            !.progress = Some(calculate_progress(call.agents_status))]
    /\ UNCHANGED engine_vars

NextProgress == calculate_progress_call

SpecProgress == InitProgress /\ [][NextProgress]_vars

----------------------------------------------------------------------------
(* Claims *)

\* the step of run r in which analyze_document writes the final status
Finalizes(r) ==
    runs[r].pc = "gathering" /\ runs'[r].pc = "done"

IsTerminalTask(status) == status \in {COMPLETED, FAILED}

\* C1: for every assignment of terminal outcomes to the tasks, the final
\* status the Orchestrator writes is completed iff every task completed,
\* failed iff every task failed, and partial in every other case.
C1_FinalStatus ==
    [][\A r \in DOMAIN runs :
          Finalizes(r) =>
             LET outcome == runs[r].agents_status
                 final == jobs'[runs[r].job_id].status
                 allCompleted == \A a \in OrchestratorAgents : outcome[a] = COMPLETED
                 allFailed == \A a \in OrchestratorAgents : outcome[a] = FAILED
             IN /\ \A a \in OrchestratorAgents : IsTerminalTask(outcome[a])
                /\ (final = COMPLETED) <=> allCompleted
                /\ (final = FAILED) <=> allFailed
                /\ (final = PARTIAL) <=> (~allCompleted /\ ~allFailed)]_vars

\* a finalized job with mixed outcomes
C1_Witness ==
    \E j \in DOMAIN jobs :
        /\ jobs[j].metadata # None
        /\ jobs[j].status = PARTIAL
        /\ \E a, b \in OrchestratorAgents :
              jobs[j].agents_status[a] = COMPLETED /\ jobs[j].agents_status[b] = FAILED

----------------------------------------------------------------------------

\* the status the job would have were it a function of its task statuses
StatusOfTasks(agents_status) ==
    LET names == DOMAIN agents_status
    IN IF \A a \in names : agents_status[a] = PENDING THEN PENDING
       ELSE IF \E a \in names : ~IsTerminalTask(agents_status[a]) THEN PROCESSING
       ELSE IF \A a \in names : agents_status[a] = COMPLETED THEN COMPLETED
       ELSE IF \A a \in names : agents_status[a] = FAILED THEN FAILED
       ELSE PARTIAL

\* C2 as stated: in every reachable Store state a job's status is the stated
\* function of its task_status map (pending, processing, completed, failed,
\* partial) and is never set independently of it.
C2_Original ==
    \A j \in DOMAIN jobs : jobs[j].status = StatusOfTasks(jobs[j].agents_status)

\* C2 as amended: the status is set next to the task statuses, not computed
\* from them; in every reachable Store state pending implies every task is
\* pending, completed implies every task is completed, partial implies every
\* task is terminal with neither all completed nor all failed, failed
\* implies every task is failed or the run failed as a whole (the entry
\* error_messages["orchestrator"] is there), and processing implies no task is
\* pending.
C2_StatusAgreesWithTasks ==
    \A j \in DOMAIN jobs :
        LET job == jobs[j]
            names == DOMAIN job.agents_status
        IN /\ job.status \in {PENDING, PROCESSING, COMPLETED, FAILED, PARTIAL}
           /\ job.status = PENDING => \A a \in names : job.agents_status[a] = PENDING
           /\ job.status = PROCESSING =>
                 /\ names = OrchestratorAgents
                 /\ \A a \in names : job.agents_status[a] # PENDING
           /\ job.status = COMPLETED =>
                 /\ names = OrchestratorAgents
                 /\ \A a \in names : job.agents_status[a] = COMPLETED
           /\ job.status = PARTIAL =>
                 /\ names = OrchestratorAgents
                 /\ \A a \in names : IsTerminalTask(job.agents_status[a])
                 /\ \E a \in names : job.agents_status[a] # COMPLETED
                 /\ \E a \in names : job.agents_status[a] # FAILED
           /\ job.status = FAILED =>
                 \/ /\ names = OrchestratorAgents
                    /\ \A a \in names : job.agents_status[a] = FAILED
                 \/ "orchestrator" \in DOMAIN job.error_messages

\* a job failed by its precondition while every task is still pending
C2_Witness ==
    \E j \in DOMAIN jobs :
        /\ jobs[j].status = FAILED
        /\ \A a \in DOMAIN jobs[j].agents_status : jobs[j].agents_status[a] = PENDING
        /\ "orchestrator" \in DOMAIN jobs[j].error_messages

\* C3 as stated: a stored task status only moves pending -> processing ->
\* completed or failed; a terminal task status is never written back to
\* pending or processing and never switches between completed and failed.
C3_Original ==
    [][\A j \in DOMAIN jobs : \A a \in DOMAIN jobs[j].agents_status :
          LET old == jobs[j].agents_status[a]
              new == jobs'[j].agents_status[a]
          IN /\ IsTerminalTask(old) => new = old
             /\ old = PROCESSING => new \in {PROCESSING, COMPLETED, FAILED}
             /\ old = PENDING => new \in {PENDING, PROCESSING}]_vars

\* C4 as stated: for every document at most one job is pending or processing.
C4_Original ==
    \A d \in AllDocIds :
        Cardinality({j \in JobsOfDocument(jobs, d) : jobs[j].status \in {PENDING, PROCESSING}}) <= 1

\* C5: an admission call for a document made while a job that an earlier
\* admission call of that document returned has not yet reached a terminal
\* status returns that same job_id and creates no job.
C5_IdempotentAdmission ==
    [][Len(responses') = Len(responses) + 1 =>
          LET second == responses'[Len(responses')]
          IN \A i \in DOMAIN responses :
                ( /\ responses[i].document_id = second.document_id
                  /\ responses[i].job_id # 0
                  /\ responses[i].job_id \notin ended )
                => ( /\ second.job_id = responses[i].job_id
                     /\ jobs' = jobs )]_vars

\* three admission calls answered with one job: created, reused while pending,
\* returned while processing
C5_Witness ==
    /\ Len(responses) = 3
    /\ Len(jobs) = 1
    /\ \A i \in 1..3 : responses[i].job_id = 1
    /\ responses[2].status = PENDING
    /\ responses[3].status = PROCESSING

\* C6 as stated: there are never two orchestration runs scheduled or in
\* progress at the same time for one document.
C6_Original ==
    \A d \in AllDocIds :
        Cardinality({r \in DOMAIN runs : runs[r].document_id = d /\ runs[r].pc # "done"}) <= 1

\* the task status an agent's behaviour must end in
ExpectedStatus(behaviour) ==
    IF behaviour = "returns_dict" THEN COMPLETED ELSE FAILED

\* the results entry an agent's behaviour must end in
ExpectedResult(behaviour) ==
    CASE behaviour = "returns_dict" -> [data |-> "payload"]
      [] behaviour = "times_out" -> [error |-> TimeoutMessage]
      [] behaviour = "raises" -> [error |-> ProcessErrorMessage]
      [] OTHER -> [error |-> NotADictMessage]

\* the step of run r in which one agent's envelope resolves
Resolves(r, a) ==
    /\ runs[r].pc = "gathering"
    /\ runs'[r].pc = "gathering"
    /\ runs[r].agents_status[a] = PROCESSING
    /\ runs'[r].agents_status[a] # PROCESSING

\* C7: for every combination of success, error and timeout the Orchestrator
\* launches all tasks; a task that resolves records its own outcome and
\* leaves what is recorded for its siblings as it is (none is cancelled or
\* changed); the run finalizes only when every task is recorded, each with
\* the status and the results entry of its own outcome.
C7_NoShortCircuit ==
    [][\A r \in DOMAIN runs :
          /\ (runs[r].pc = "extracted" /\ runs'[r].pc = "gathering") =>
                \A a \in OrchestratorAgents :
                    /\ runs'[r].agents_status[a] = PROCESSING
                    /\ jobs'[runs[r].job_id].agents_status[a] = PROCESSING
          /\ \A a \in OrchestratorAgents :
                Resolves(r, a) =>
                    /\ runs'[r].agents_status[a] = ExpectedStatus(runs[r].behaviours[a])
                    /\ runs'[r].results_payload[a] = ExpectedResult(runs[r].behaviours[a])
                    /\ \A s \in OrchestratorAgents \ {a} :
                          /\ runs'[r].agents_status[s] = runs[r].agents_status[s]
                          /\ (s \in DOMAIN runs'[r].results_payload) = (s \in DOMAIN runs[r].results_payload)
                          /\ s \in DOMAIN runs[r].results_payload =>
                                runs'[r].results_payload[s] = runs[r].results_payload[s]
          /\ Finalizes(r) =>
                LET job == jobs'[runs[r].job_id]
                IN /\ DOMAIN job.results = OrchestratorAgents
                   /\ \A a \in OrchestratorAgents :
                         /\ job.agents_status[a] = ExpectedStatus(runs[r].behaviours[a])
                         /\ job.results[a] = ExpectedResult(runs[r].behaviours[a])]_vars

\* a finalized job in which one task timed out, one raised and two succeeded
C7_Witness ==
    \E j \in DOMAIN jobs :
        /\ jobs[j].metadata # None
        /\ DOMAIN jobs[j].results = OrchestratorAgents
        /\ jobs[j].results["summarizer"] = [error |-> TimeoutMessage]
        /\ jobs[j].results["entity_extractor"] = [error |-> ProcessErrorMessage]
        /\ jobs[j].agents_status["sentiment_analyzer"] = COMPLETED
        /\ jobs[j].agents_status["keyword_extractor"] = COMPLETED

\* C8 as stated: in every reachable Store state results holds an entry for a
\* task name only if the stored status of that task is completed or failed.
C8_Original ==
    \A j \in DOMAIN jobs : \A a \in DOMAIN jobs[j].results :
        /\ a \in DOMAIN jobs[j].agents_status
        /\ IsTerminalTask(jobs[j].agents_status[a])

\* the elements of a list
Elements(list) == {list[i] : i \in DOMAIN list}

\* C9: at finalization agents_completed is the number of completed tasks,
\* agents_failed the number of failed tasks, the two sum to the number of
\* configured tasks, the failed-task list holds exactly the failed names, the
\* warning is set iff a task failed, and results has an entry for every task.
C9_FinalMetadata ==
    [][\A r \in DOMAIN runs :
          Finalizes(r) =>
             LET job == jobs'[runs[r].job_id]
                 completed == {a \in DOMAIN job.agents_status : job.agents_status[a] = COMPLETED}
                 failed == {a \in DOMAIN job.agents_status : job.agents_status[a] = FAILED}
             IN /\ job.metadata # None
                /\ job.metadata[1].agents_completed = Cardinality(completed)
                /\ job.metadata[1].agents_failed = Cardinality(failed)
                /\ job.metadata[1].agents_completed + job.metadata[1].agents_failed
                      = Cardinality(OrchestratorAgents)
                /\ Elements(job.metadata[1].failed_agents) = failed
                /\ Len(job.metadata[1].failed_agents) = Cardinality(failed)
                /\ (job.metadata[1].warning # None) <=> (failed # {})
                /\ DOMAIN job.results = OrchestratorAgents
                /\ DOMAIN job.agents_status = OrchestratorAgents]_vars

\* a finalized job with three completed tasks and one failed task
C9_Witness ==
    \E j \in DOMAIN jobs :
        /\ jobs[j].metadata # None
        /\ jobs[j].metadata[1].agents_completed = 3
        /\ jobs[j].metadata[1].agents_failed = 1
        /\ jobs[j].metadata[1].failed_agents = <<"keyword_extractor">>
        /\ jobs[j].status = PARTIAL

\* a text without any character other than whitespace
IsBlank(text) == \A i \in DOMAIN text : text[i] \in Whitespace

\* the Store record of a job whose precondition failed
FailedBeforeFanOut(job) ==
    /\ job.status = FAILED
    /\ \A a \in DOMAIN job.agents_status : job.agents_status[a] = PENDING
    /\ job.results = EmptyDict
    /\ DOMAIN job.error_messages = {"orchestrator"}
    /\ job.metadata = None

\* C10: when the document is missing or the extracted text is empty or
\* whitespace-only, the run ends without starting a task: every task status
\* of the job is pending, results is empty, the status is failed and
\* error_messages is the one entry under "orchestrator"; and the job stays so.
C10_PreconditionFailure ==
    /\ [][\A r \in DOMAIN runs :
            ( \/ /\ runs[r].pc = "scheduled"
                 /\ runs'[r].pc # "scheduled"
                 /\ runs[r].document_id \notin documents
              \/ /\ runs[r].pc = "extracted"
                 /\ runs'[r].pc # "extracted"
                 /\ ~runs[r].extracted[1].raised
                 /\ IsBlank(runs[r].extracted[1].text) )
            => ( /\ runs'[r].pc = "done"
                 /\ FailedBeforeFanOut(jobs'[runs[r].job_id])
                 /\ jobs'[runs[r].job_id].error_messages["orchestrator"]
                       \in {NoTextMessage, DocumentNotFoundMessage} )]_vars
    /\ [](\A j \in DOMAIN jobs :
            ( /\ "orchestrator" \in DOMAIN jobs[j].error_messages
              /\ jobs[j].error_messages["orchestrator"] \in {NoTextMessage, DocumentNotFoundMessage} )
            => FailedBeforeFanOut(jobs[j]))

\* a job failed because its text file holds whitespace only
C10_Witness ==
    \E j \in DOMAIN jobs : \E r \in DOMAIN runs :
        /\ runs[r].job_id = j
        /\ runs[r].pc = "done"
        /\ FailedBeforeFanOut(jobs[j])
        /\ jobs[j].error_messages["orchestrator"] = NoTextMessage

\* C11: execute() never raises: whatever process() does (returns a dict,
\* returns a non-dict, raises, runs past timeout_seconds) the call returns
\* the success variant with the payload or the error variant with a
\* message, and the success variant only when process() returned a dict
\* within the timeout.
C11_ExecuteNeverRaises ==
    (call # None /\ call.op = "execute" /\ call.pc = "returned") =>
        LET envelope == call.envelope[1]
        IN /\ envelope.status \in {"success", "error"}
           /\ envelope.status = "success" =>
                 /\ envelope.data = [data |-> "payload"]
                 /\ call.outcome = "returns_dict"
                 /\ call.duration <= call.timeout_seconds
           /\ envelope.status = "error" =>
                 /\ envelope.error_type \in {"timeout", "exception"}
                 /\ envelope.message # ""

\* execute has returned the error variant for a process() that gave a list
C11_Witness ==
    /\ call # None
    /\ call.op = "execute"
    /\ call.pc = "returned"
    /\ call.outcome = "returns_non_dict"
    /\ call.duration < call.timeout_seconds
    /\ call.envelope[1].status = "error"
    /\ call.envelope[1].message = NotADictMessage

\* the retry call in progress or finished
IsRetryCall == call # None /\ call.op = "retry_with_backoff"

\* attempt i of the plan fails with an error of the retryable set
FailsRetryably(i) ==
    AttemptFailure(call.plan[i], call.call_timeout) \in call.retry_exceptions

\* C12: when every attempt fails with a retryable error, retry_with_backoff
\* invokes the operation exactly max_attempts times, waits exactly
\* max_attempts - 1 times between the attempts and then raises the last
\* failure; it never makes more than max_attempts attempts.
C12_RetryBound ==
    IsRetryCall =>
        /\ Len(call.calls) <= call.max_attempts
        /\ (\A i \in 1..call.max_attempts : FailsRetryably(i)) =>
              /\ call.pc \in {"attempting", "sleeping", "raised"}
              /\ call.pc # "raised" => call.attempt < call.max_attempts
              /\ call.pc = "raised" =>
                    /\ call.calls = [i \in 1..call.max_attempts |-> i]
                    /\ Len(call.sleeps) = call.max_attempts - 1
                    /\ call.error = Some([attempt |-> call.max_attempts,
                                          class |-> AttemptFailure(call.plan[call.max_attempts],
                                                                   call.call_timeout)])

\* three failing attempts, two waits, then the third failure is raised
C12_Witness ==
    /\ IsRetryCall
    /\ call.max_attempts = 3
    /\ \A i \in 1..3 : FailsRetryably(i)
    /\ call.pc = "raised"
    /\ Len(call.calls) = 3
    /\ Len(call.sleeps) = 2

\* C13: when an attempt succeeds, retry_with_backoff returns that attempt's
\* result at once: the value is the one of the first successful attempt, the
\* operation has been invoked exactly that many times, every wait lies
\* between two attempts, and nothing happens after the return.
C13_ReturnsFirstSuccess ==
    /\ [](IsRetryCall =>
            /\ \A i \in 1..Len(call.calls) :
                  call.plan[i] = "succeeds" =>
                     /\ call.pc = "returned"
                     /\ call.result = Some([attempt |-> i])
                     /\ Len(call.calls) = i
                     /\ Len(call.sleeps) = i - 1
            /\ call.pc = "returned" =>
                  /\ call.plan[call.attempt] = "succeeds"
                  /\ call.result = Some([attempt |-> call.attempt]))
    /\ [][(IsRetryCall /\ call.pc = "returned") => call' = call]_vars

\* two failures, then a success that is returned after two waits
C13_Witness ==
    /\ IsRetryCall
    /\ call.pc = "returned"
    /\ call.result = Some([attempt |-> 3])
    /\ call.calls = <<1, 2, 3>>
    /\ call.sleeps = <<1, 2>>

\* the step in which run r returns
RunEnds(r) ==
    runs[r].pc # "done" /\ runs'[r].pc = "done"

Abs(n) == IF n < 0 THEN -n ELSE n

Admits == Len(responses') = Len(responses) + 1

\* the answer given in an admission step
Answer == responses'[Len(responses')]

\* the jobs of document d that no other job of d is more recent than
MostRecentJobs(d) ==
    {j \in DOMAIN jobs :
        /\ jobs[j].document_id = d
        /\ \A k \in DOMAIN jobs :
              jobs[k].document_id = d => jobs[k].start_time <= jobs[j].start_time}

\* C16: when the most recent job of the document is processing, completed or
\* partial, an admission call answers with that job's id and current status,
\* creates no job, schedules no run and leaves every job record unchanged.
C16_ReturnsExistingJob ==
    [][Admits =>
          \A j \in MostRecentJobs(Answer.document_id) :
              jobs[j].status \in {PROCESSING, COMPLETED, PARTIAL} =>
                 /\ Answer.job_id = j
                 /\ Answer.status = jobs[j].status
                 /\ jobs' = jobs
                 /\ runs' = runs]_vars

\* a second admission call answered with the partial job of the first
C16_Witness ==
    /\ Len(responses) >= 2
    /\ Len(jobs) = 1
    /\ jobs[1].status = PARTIAL
    /\ responses[Len(responses)] =
          [document_id |-> jobs[1].document_id, code |-> 200, job_id |-> 1, status |-> PARTIAL]

\* C17: when the document has no job, or its most recent job is failed, an
\* admission call creates exactly one job, under an id no job has, pending,
\* with every task of the record pending and no results, schedules exactly
\* one run for it, and leaves the jobs there were unchanged.
C17_CreatesNewJob ==
    [][(Admits /\ Answer.document_id \in documents) =>
          LET recent == MostRecentJobs(Answer.document_id)
          IN (recent = {} \/ \A j \in recent : jobs[j].status = FAILED) =>
                /\ Len(jobs') = Len(jobs) + 1
                /\ \A j \in DOMAIN jobs : jobs'[j] = jobs[j]
                /\ Answer.job_id = Len(jobs')
                /\ \A j \in DOMAIN jobs : jobs[j].job_id # jobs'[Len(jobs')].job_id
                /\ jobs'[Len(jobs')].job_id = Answer.job_id
                /\ jobs'[Len(jobs')].document_id = Answer.document_id
                /\ jobs'[Len(jobs')].status = PENDING
                /\ DOMAIN jobs'[Len(jobs')].agents_status # {}
                /\ \A a \in DOMAIN jobs'[Len(jobs')].agents_status :
                      jobs'[Len(jobs')].agents_status[a] = PENDING
                /\ jobs'[Len(jobs')].results = EmptyDict
                /\ Answer.status = PENDING
                /\ runs' = Append(runs, NewRun(Answer.job_id, Answer.document_id))]_vars

\* a failed job followed by a new pending job of the same document, with its run
C17_Witness ==
    /\ Len(jobs) = 2
    /\ jobs[1].status = FAILED
    /\ jobs[2].status = PENDING
    /\ jobs[2].document_id = jobs[1].document_id
    /\ \E r \in DOMAIN runs : runs[r].job_id = 2 /\ runs[r].pc = "scheduled"
    /\ responses[Len(responses)].job_id = 2

\* C18 as stated: from its creation on, the key set of a job's task_status
\* is the set of tasks the Orchestrator runs, and no Store write adds or
\* removes a key.
C18_Original ==
    /\ [](\A j \in DOMAIN jobs : DOMAIN jobs[j].agents_status = OrchestratorAgents)
    /\ [][\A j \in DOMAIN jobs :
            DOMAIN jobs'[j].agents_status = DOMAIN jobs[j].agents_status]_vars

\* C19: the final status, the metadata and end_time are stored in one write
\* made when every task is terminal: the finalizing step sets all three at
\* once, and no reachable Store state has a completed or partial job whose
\* metadata or end_time is unset or one of whose tasks is not terminal.
C19_AtomicFinalWrite ==
    /\ [](\A j \in DOMAIN jobs :
            jobs[j].status \in {COMPLETED, PARTIAL} =>
               /\ jobs[j].metadata # None
               /\ jobs[j].end_time # None
               /\ DOMAIN jobs[j].agents_status = OrchestratorAgents
               /\ \A a \in OrchestratorAgents : IsTerminalTask(jobs[j].agents_status[a]))
    /\ [][\A r \in DOMAIN runs :
            Finalizes(r) =>
               /\ \A a \in OrchestratorAgents : IsTerminalTask(runs[r].agents_status[a])
               /\ jobs'[runs[r].job_id].status = _determine_status(runs[r].agents_status)
               /\ jobs'[runs[r].job_id].end_time = Some(clock)
               /\ jobs'[runs[r].job_id].metadata =
                     Some(BuildMetadata(runs[r].agents_status, runs[r].failed_agents))]_vars

\* a completed job with its metadata and end_time, every task completed
C19_Witness ==
    \E j \in DOMAIN jobs :
        /\ jobs[j].status = COMPLETED
        /\ jobs[j].metadata # None
        /\ jobs[j].metadata[1].agents_completed = Cardinality(OrchestratorAgents)
        /\ jobs[j].end_time # None
        /\ \A a \in OrchestratorAgents : jobs[j].agents_status[a] = COMPLETED

\* what analyze persists of the aggregate: everything of the final record
\* but the ids and the clock readings
FinalAggregate(job) ==
    [ status |-> job.status,
      agents_status |-> job.agents_status,
      results |-> job.results,
      error_messages |-> job.error_messages,
      agents_completed |-> job.metadata[1].agents_completed,
      agents_failed |-> job.metadata[1].agents_failed,
      warning |-> job.metadata[1].warning,
      failed_agents |-> job.metadata[1].failed_agents ]

\* C20 as stated: for one assignment of outcomes to the tasks, the final
\* status, the metadata counts, the failed-task list, error_messages and
\* results that analyze persists are the same whatever the order in which
\* the tasks complete: two finalized runs with the same outcomes agree.
C20_Original ==
    \A i, j \in DOMAIN jobs :
        (jobs[i].metadata # None /\ jobs[j].metadata # None) =>
            FinalAggregate(jobs[i]) = FinalAggregate(jobs[j])

\* the field of the answer's results that holds the section of a task
SectionName(agent_name) ==
    CASE agent_name = "summarizer" -> "summary"
      [] agent_name = "entity_extractor" -> "entities"
      [] agent_name = "sentiment_analyzer" -> "sentiment"
      [] OTHER -> "keywords"

\* the answer's results hold this section for the task
HasSection(response, agent_name, section) ==
    /\ "results" \in DOMAIN response
    /\ SectionName(agent_name) \in DOMAIN response.results
    /\ response.results[SectionName(agent_name)] = Some(section)

\* C21 as stated: the results query answers by the stored status: 202
\* 'Analysis in progress' without results for pending or processing; 200
\* with status failed and the error_messages map for failed with empty
\* results; 206 for partial, every failed task's section being {error:
\* message} and the task named in metadata.failed_agents; 200 with the full
\* results for completed; 404 for an unknown job_id.
C21_Original ==
    (call # None /\ call.op = "get_results") =>
        LET response == call.response
        IN IF call.job = None THEN response.code = 404
           ELSE LET job == call.job[1]
                IN /\ job.status \in {PENDING, PROCESSING} =>
                        /\ response.code = 202
                        /\ response.message = "Analysis in progress"
                        /\ "results" \notin DOMAIN response
                   /\ (job.status = FAILED /\ job.results = EmptyDict) =>
                        /\ response.code = 200
                        /\ response.status = FAILED
                        /\ response.errors = job.error_messages
                   /\ job.status = PARTIAL =>
                        /\ response.code = 206
                        /\ \A a \in DOMAIN job.agents_status :
                              job.agents_status[a] = FAILED =>
                                 /\ HasSection(response, a, [error |-> job.error_messages[a]])
                                 /\ a \in Elements(response.metadata.failed_agents)
                   /\ job.status = COMPLETED =>
                        /\ response.code = 200
                        /\ \A a \in DOMAIN job.results :
                              HasSection(response, a, job.results[a])

\* C22 as stated: when the text extraction raises, the run catches the
\* exception and ends; the job is failed with error_messages["orchestrator"]
\* equal to the exception's detail, and a results query made afterwards
\* reports status failed with that error.
C22_Original ==
    [][\A r \in DOMAIN runs :
          ( /\ runs[r].pc = "extracted"
            /\ runs[r].extracted[1].raised
            /\ runs'[r].pc # "extracted" )
          => LET job == jobs'[runs[r].job_id]
                 answer == get_results(jobs', runs[r].job_id)
             IN /\ runs'[r].pc = "done"
                /\ job.status = FAILED
                /\ "orchestrator" \in DOMAIN job.error_messages
                /\ job.error_messages["orchestrator"] = runs[r].extracted[1].detail
                /\ answer.code = 200
                /\ answer.status = FAILED
                /\ "errors" \in DOMAIN answer
                /\ "orchestrator" \in DOMAIN answer.errors
                /\ answer.errors["orchestrator"] = runs[r].extracted[1].detail]_vars

----------------------------------------------------------------------------

\* the step is one of run r
RunSteps(r) ==
    r \in DOMAIN runs /\ runs'[r] # runs[r]

\* C23: admission calls for two different documents give two different
\* job_ids, each job bound to the document it was admitted for; a write of
\* one run changes the record of its own job only; and the final status a
\* run writes is determined by the outcomes of its own tasks.
C23_IndependentJobs ==
    [][ /\ (Admits /\ Answer.code # 404) =>
              /\ Answer.job_id \in DOMAIN jobs'
              /\ jobs'[Answer.job_id].job_id = Answer.job_id
              /\ jobs'[Answer.job_id].document_id = Answer.document_id
              /\ \A k \in DOMAIN responses :
                    (responses[k].code # 404 /\ responses[k].document_id # Answer.document_id)
                       => responses[k].job_id # Answer.job_id
              /\ \A j \in DOMAIN jobs :
                    jobs[j].document_id # Answer.document_id => jobs'[j] = jobs[j]
        /\ \A r \in DOMAIN runs :
              RunSteps(r) =>
                 /\ \A j \in DOMAIN jobs : j # runs[r].job_id => jobs'[j] = jobs[j]
                 /\ Finalizes(r) =>
                       jobs'[runs[r].job_id].status =
                          _determine_status([a \in OrchestratorAgents |->
                                                ExpectedStatus(runs[r].behaviours[a])])
      ]_vars

\* two jobs of two documents have been finalized with different final statuses
C23_Witness ==
    \E i, j \in DOMAIN jobs :
        /\ jobs[i].document_id # jobs[j].document_id
        /\ jobs[i].metadata # None /\ jobs[j].metadata # None
        /\ jobs[i].status = COMPLETED /\ jobs[j].status = FAILED

----------------------------------------------------------------------------

\* the moves of a job's stored status the life cycle allows
AllowedMove(before, after) ==
    \/ after = before
    \/ before = PENDING /\ after \in {PROCESSING, FAILED}
    \/ before = PROCESSING /\ after \in TerminalStatuses

\* C24 as stated: a job's stored status only moves pending -> processing ->
\* {completed, partial, failed}, or pending -> failed; once it is completed,
\* partial or failed it never changes again, under every interleaving of
\* admission calls and runs.
C24_Original ==
    [][\A j \in DOMAIN jobs : AllowedMove(jobs[j].status, jobs'[j].status)]_vars

----------------------------------------------------------------------------

\* the step of run r in which analyze_document makes its first write
Dispatches(r) ==
    runs[r].pc = "extracted" /\ runs'[r].pc = "gathering"

\* C25: the first write of analyze_document sets the job to processing and
\* every configured task to processing in one update; in no state is a job
\* processing while one of the configured tasks is pending or has no entry
\* in agents_status.
C25_AtomicFirstWrite ==
    /\ [](\A j \in DOMAIN jobs :
            jobs[j].status = PROCESSING =>
               \A a \in OrchestratorAgents :
                  /\ a \in DOMAIN jobs[j].agents_status
                  /\ jobs[j].agents_status[a] # PENDING)
    /\ [][\A r \in DOMAIN runs :
            Dispatches(r) =>
               LET before == jobs[runs[r].job_id]
                   after == jobs'[runs[r].job_id]
               IN /\ after.status = PROCESSING
                  /\ \A a \in OrchestratorAgents :
                        /\ a \in DOMAIN after.agents_status
                        /\ after.agents_status[a] = PROCESSING
                  /\ after.results = before.results
                  /\ after.end_time = before.end_time
                  /\ after.error_messages = before.error_messages
                  /\ after.metadata = before.metadata]_vars

\* a pending job has just been moved to processing: every task is processing
\* and nothing has resolved yet
C25_Witness ==
    \E r \in DOMAIN runs :
        /\ runs[r].pc = "gathering"
        /\ jobs[runs[r].job_id].status = PROCESSING
        /\ jobs[runs[r].job_id].results = EmptyDict
        /\ \A a \in OrchestratorAgents :
              jobs[runs[r].job_id].agents_status[a] = PROCESSING

----------------------------------------------------------------------------

\* the tasks a job record has as failed
FailedTasks(job) ==
    {a \in DOMAIN job.agents_status : job.agents_status[a] = FAILED}

\* C26 as stated: the step in which a task's envelope resolves writes that
\* task's terminal status and result to the Store while the siblings may still
\* be running: completed with the payload for a success, failed with
\* {"error": message} for an error; and after finalization the keys of
\* error_messages are exactly the failed task names, each with that message.
C26_Original ==
    [][\A r \in DOMAIN runs :
          /\ \A a \in OrchestratorAgents :
                Resolves(r, a) =>
                   LET job == jobs'[runs[r].job_id]
                       behaviour == runs[r].behaviours[a]
                   IN /\ job.agents_status[a] = ExpectedStatus(behaviour)
                      /\ a \in DOMAIN job.results
                      /\ job.results[a] = ExpectedResult(behaviour)
                      /\ (job.agents_status[a] = FAILED) <=> ("error" \in DOMAIN job.results[a])
          /\ Finalizes(r) =>
                LET job == jobs'[runs[r].job_id]
                IN /\ DOMAIN job.error_messages = FailedTasks(job)
                   /\ \A a \in FailedTasks(job) :
                         job.results[a] = [error |-> job.error_messages[a]]]_vars

----------------------------------------------------------------------------

\* dict `after` is dict `before` with the entries of `given` put over it
Merged(before, given, after) ==
    /\ DOMAIN after = DOMAIN before \cup DOMAIN given
    /\ \A k \in DOMAIN given : after[k] = given[k]
    /\ \A k \in DOMAIN before \ DOMAIN given : after[k] = before[k]

\* dict `later` leaves the keys of dict `earlier` alone
Disjoint(earlier, later) ==
    DOMAIN earlier \cap DOMAIN later = {}

\* the step is an update_job_status call on a stored job
UpdatesJob ==
    /\ Updates' = Updates + 1
    /\ call'.job_id \in DOMAIN jobs

\* C27: update_job_status merges: in agents_status, results and
\* error_messages the keys of the call get the call's values and every other
\* key keeps its value; an omitted or empty argument (end_time and metadata
\* too) leaves its field as it was; so of two calls that write disjoint keys
\* the later one keeps what the earlier one wrote.
C27_UpdateMerges ==
    [][UpdatesJob =>
          LET before == jobs[call'.job_id]
              after == jobs'[call'.job_id]
          IN /\ after.status = call'.status
             /\ Merged(before.agents_status, call'.agents_status, after.agents_status)
             /\ Merged(before.results, call'.results, after.results)
             /\ Merged(before.error_messages, call'.error_messages, after.error_messages)
             /\ after.end_time = IF call'.end_time = None THEN before.end_time ELSE call'.end_time
             /\ after.metadata = IF call'.metadata = None THEN before.metadata ELSE call'.metadata
             /\ (Updates = 1 /\ call.job_id = call'.job_id) =>
                   /\ Disjoint(call.agents_status, call'.agents_status) =>
                         \A k \in DOMAIN call.agents_status :
                            after.agents_status[k] = call.agents_status[k]
                   /\ Disjoint(call.results, call'.results) =>
                         \A k \in DOMAIN call.results : after.results[k] = call.results[k]
                   /\ Disjoint(call.error_messages, call'.error_messages) =>
                         \A k \in DOMAIN call.error_messages :
                            after.error_messages[k] = call.error_messages[k]
      ]_vars

\* two calls have written the two tasks one after the other, the second with
\* nothing but its task's status and result; the record holds both and the
\* end_time and metadata of the first
C27_Witness ==
    /\ Updates = 2
    /\ call.job_id = 1
    /\ call.agents_status = [entity_extractor |-> FAILED]
    /\ call.results = [entity_extractor |-> [error |-> ProcessErrorMessage]]
    /\ call.end_time = None /\ call.metadata = None /\ call.error_messages = EmptyDict
    /\ jobs[1].agents_status["summarizer"] = COMPLETED
    /\ jobs[1].agents_status["entity_extractor"] = FAILED
    /\ DOMAIN jobs[1].results = {"summarizer", "entity_extractor"}
    /\ jobs[1].end_time # None
    /\ jobs[1].metadata # None

----------------------------------------------------------------------------

\* the callers that are between the entry and the exit of the lock
Inside ==
    {t \in Callers : call.callers[t].pc \in InCriticalSection}

\* caller t runs statements of its operation's body in the step
RunsBody(t) ==
    /\ call.callers[t].pc \in {"locked", "half"}
    /\ call'.callers[t].pc # call.callers[t].pc

\* caller t leaves the lock in the step
Releases(t) ==
    call.callers[t].pc = "finished" /\ call'.callers[t].pc = "idle"

\* C28: every Store operation runs between the entry and the exit of the
\* one Store lock: at most one operation is inside at any time, and it is
\* the holder of the lock; a read returns what the finished operations left
\* in the Store (never a write half made); and when an operation leaves, the
\* Store is what the operation as a whole makes of the Store it found (no
\* statement of another writer came in between).
C28_StoreLock ==
    /\ [](/\ Cardinality(Inside) <= 1
          /\ Inside = IF call.lock = 0 THEN {} ELSE {call.lock})
    /\ [][\A t \in Callers :
            /\ (RunsBody(t) /\ call.callers[t].request[1].op \in StoreReaders) =>
                  call'.callers[t].returned =
                     Some(StoreAnswer(call.documents, call.jobs, call.callers[t].request[1]))
            /\ Releases(t) =>
                  <<documents, jobs>> =
                     StoreEffect(call.documents, call.jobs, clock, call.callers[t].request[1])]_vars

\* a writer is half-way through update_job_status (the status is written, the
\* tasks are not) while a reader of that job waits for the lock
C28_Witness ==
    \E w, r \in Callers :
        /\ call.callers[w].pc = "half"
        /\ call.callers[r].pc = "waiting"
        /\ call.callers[r].request[1].op = "get_job"
        /\ jobs[1].status = PARTIAL
        /\ "entity_extractor" \notin DOMAIN jobs[1].agents_status \/ jobs[1].agents_status["entity_extractor"] # FAILED

----------------------------------------------------------------------------

\* C29: once a job is stored, no step of admission or of a run changes its
\* job_id, its document_id or its start_time, and no stored job record is
\* replaced by a later save_job: a step that stores a new job appends it and
\* leaves every stored record as it was.
C29_IdentityKept ==
    [][ /\ \A j \in DOMAIN jobs :
              /\ j \in DOMAIN jobs'
              /\ jobs'[j].job_id = jobs[j].job_id
              /\ jobs'[j].document_id = jobs[j].document_id
              /\ jobs'[j].start_time = jobs[j].start_time
        /\ Admits =>
              /\ Len(jobs') \in {Len(jobs), Len(jobs) + 1}
              /\ \A j \in DOMAIN jobs : jobs'[j] = jobs[j]
      ]_vars

\* a second job has been saved for the document after the first one failed,
\* and the second one has been written to by its run
C29_Witness ==
    /\ Len(jobs) >= 2
    /\ jobs[1].status = FAILED
    /\ jobs[1].start_time < jobs[2].start_time
    /\ jobs[2].document_id = jobs[1].document_id
    /\ jobs[2].status # PENDING

----------------------------------------------------------------------------

\* the remote call has returned and what it returned does not pass the local
\* decoding and validation
ResponseRejected ==
    /\ call.op = "process"
    /\ call.result # None
    /\ _parse_output(call.raw_output).raised

\* C30: when the remote call succeeds and its response fails the local
\* decoding or validation, the task is not retried: the validation error ends
\* process() in the same step, with no further remote call and no backoff
\* (one remote call in all when the first attempt is the one that succeeds),
\* and the task is recorded failed with that error's message.
C30_ValidationNotRetried ==
    /\ [][(ResponseRejected /\ call.pc = "returned") =>
             /\ call'.pc = "done"
             /\ call'.calls = call.calls
             /\ call'.sleeps = call.sleeps
             /\ call'.task = Some([status |-> FAILED,
                                   result |-> [error |-> _parse_output(call.raw_output).message]])]_vars
    /\ [](ResponseRejected =>
             /\ Len(call.calls) = call.result[1].attempt
             /\ call.plan[1] = "succeeds" => Len(call.calls) = 1)

\* the first remote call succeeded with malformed JSON: the task has ended
\* failed after that one call
C30_Witness ==
    /\ ResponseRejected
    /\ call.pc = "done"
    /\ call.plan[1] = "succeeds"
    /\ call.raw_output = "malformed_json"
    /\ Len(call.calls) = 1
    /\ call.task = Some([status |-> FAILED, result |-> [error |-> MalformedJsonMessage]])

----------------------------------------------------------------------------

\* C31: a task without an LLM client (no credentials configured) fails fast:
\* process() ends in its first step with no remote call and no backoff wait,
\* and the task is recorded failed with the error's message, a record made of
\* that task's outcome alone.
C31_FailsFast ==
    /\ [][(call.op = "process" /\ call.pc = "started" /\ ~call.llm) =>
             /\ call'.pc = "done"
             /\ call'.task = Some([status |-> FAILED, result |-> [error |-> NoLlmMessage]])]_vars
    /\ []((call.op = "process" /\ ~call.llm) =>
             /\ call.calls = <<>>
             /\ call.sleeps = <<>>
             /\ call.attempt = 0)

\* the task without an LLM client has ended failed, though the remote call
\* would have succeeded at once
C31_Witness ==
    /\ call.op = "process"
    /\ ~call.llm
    /\ call.pc = "done"
    /\ call.plan[1] = "succeeds"
    /\ call.raw_output = "valid_json"
    /\ call.task[1].status = FAILED

----------------------------------------------------------------------------

\* C32 as stated: with a per-attempt timeout, an attempt that does not finish
\* is abandoned and counts as a failed attempt that is retried like any other
\* retryable failure, for every retryable-error set: the timeout is raised to
\* the caller only on attempt max_attempts, and when every attempt times out
\* the operation has been attempted exactly max_attempts times by then.
C32_Original ==
    (IsRetryCall /\ call.call_timeout) =>
        /\ call.pc # "hung"
        /\ \A i \in 1..Len(call.calls) :
              (call.plan[i] = "hangs" /\ call.pc = "raised" /\ call.attempt = i) =>
                  /\ i = call.max_attempts
                  /\ call.error = Some([attempt |-> i, class |-> "TimeoutError"])
        /\ ((\A i \in 1..call.max_attempts : call.plan[i] = "hangs") /\ call.pc = "raised") =>
              call.calls = [i \in 1..call.max_attempts |-> i]

----------------------------------------------------------------------------

\* C33: the wait after failed attempt k lies in [max(0, d - j*d), d + j*d]
\* with d = min(initial_delay * multiplier^(k-1), max_delay) and j the jitter
\* fraction; d never exceeds max_delay, the d are non-decreasing in k when
\* the multiplier is at least 1, and no wait is negative.
C33_BackoffWait ==
    (call # None /\ call.op = "backoff") =>
        \A k \in DOMAIN call.waits :
            LET d == call.waits[k].delay
                spread == call.jitter * d * 100
                lowest == IF d * 10000 - spread > 0 THEN d * 10000 - spread ELSE 0
            IN /\ d <= call.max_delay * BackoffScale
               /\ d \in {GrownDelay(call, k), call.max_delay * BackoffScale}
               /\ d <= GrownDelay(call, k)
               /\ call.waits[k].sleep_for >= 0
               /\ call.waits[k].sleep_for >= lowest
               /\ call.waits[k].sleep_for <= d * 10000 + spread
               /\ (k > 1 /\ call.multiplier.num >= call.multiplier.den) =>
                     call.waits[k - 1].delay <= d

\* the delay has grown, then been held at max_delay, and a wait has been
\* floored at 0 by a jitter above 1
C33_Witness ==
    /\ call # None /\ call.op = "backoff"
    /\ Len(call.waits) = 3
    /\ call.jitter = 150
    /\ call.waits[1].delay < call.waits[2].delay
    /\ call.waits[3].delay = call.max_delay * BackoffScale
    /\ call.waits[3].delay < GrownDelay(call, 3)
    /\ call.waits[3].sleep_for = 0

----------------------------------------------------------------------------

\* C34 as stated: the envelope's timeout_seconds is larger than the
\* per-attempt timeout, so a remote attempt that hits its per-attempt timeout
\* before the last attempt is followed by a backoff and a further attempt: the
\* envelope's ceiling does not end the task at that point.
C34_Original ==
    [][( /\ call.op = "ceiling"
         /\ call.pc = "attempting"
         /\ call.plan[call.attempt + 1] = "hangs"
         /\ call.attempt + 1 < call.max_attempts )
       => /\ call.call_timeout_seconds < call.timeout_seconds
          /\ call'.pc = "sleeping"]_vars

----------------------------------------------------------------------------

\* C35 as stated: the error variant execute() returns has error_type
\* "timeout" exactly when the run went beyond timeout_seconds, and
\* "exception" for every other failure: process() raised an exception, of
\* whatever class, or returned a payload that is not a dict.
C35_Original ==
    (call # None /\ call.op = "execute" /\ call.pc = "returned"
        /\ call.envelope[1].status = "error") =>
        LET envelope == call.envelope[1]
        IN /\ envelope.error_type \in {"timeout", "exception"}
           /\ envelope.error_type = "timeout" => call.duration >= call.timeout_seconds
           /\ envelope.error_type = "exception" =>
                 /\ call.duration <= call.timeout_seconds
                 /\ call.outcome \in {"raises", "raises_timeout_error", "returns_non_dict"}

----------------------------------------------------------------------------

\* the step is a call of get_latest_job_for_document
AsksLatest ==
    call' # call /\ call'.op = "get_latest_job_for_document"

\* C36: get_latest_job_for_document returns nothing when the document has no
\* job; otherwise it returns a stored job of that document, never of another
\* one, whose start_time no job of the document exceeds; documents and jobs
\* are after the call what they were before it.
C36_LatestJob ==
    [][AsksLatest =>
          LET d == call'.document_id
              own == JobsOfDocument(jobs, d)
          IN /\ jobs' = jobs
             /\ documents' = documents
             /\ (own = {}) <=> (call'.returned = None)
             /\ own # {} =>
                   LET job == call'.returned[1]
                   IN /\ job.document_id = d
                      /\ job.job_id \in own
                      /\ jobs[job.job_id] = job
                      /\ \A k \in own : jobs[k].start_time <= job.start_time]_vars

\* the document asked for has two jobs and the other document has a job
\* saved after both: the answer is the later job of the document asked for
C36_Witness ==
    /\ call # None
    /\ call.op = "get_latest_job_for_document"
    /\ Len(jobs) = 3
    /\ jobs[1].document_id = call.document_id
    /\ jobs[2].document_id = call.document_id
    /\ jobs[3].document_id # call.document_id
    /\ jobs[1].start_time < jobs[2].start_time
    /\ jobs[2].start_time < jobs[3].start_time
    /\ call.returned = Some(jobs[2])

----------------------------------------------------------------------------

\* the step is the extraction of run r
Extracts(r) ==
    /\ r \in DOMAIN runs
    /\ runs[r].pc = "extracting"
    /\ runs' = [runs EXCEPT ![r].pc = "extracted",
                            ![r].extracted = Some(ExtractedText(files[runs[r].document_id]))]

\* C37 as stated: after a job of a document has ended failed, the run of a
\* new job of that document can obtain the document's text: when it extracts,
\* the uploaded file has not been removed by the cleanup of an earlier run.
C37_Original ==
    [][\A r \in DOMAIN runs :
          ( /\ Extracts(r)
            /\ \E j \in DOMAIN jobs :
                  /\ j < runs[r].job_id
                  /\ jobs[j].document_id = runs[r].document_id
                  /\ jobs[j].status = FAILED )
          => files[runs[r].document_id] # "missing"]_vars

\* C38 as stated: in every Store state a job with a terminal status, a job
\* failed by a precondition or by an exception of its run included, has
\* end_time set, and a pending or processing job has end_time unset.
C38_Original ==
    \A j \in DOMAIN jobs :
        (jobs[j].status \in TerminalStatuses) <=> (jobs[j].end_time # None)

----------------------------------------------------------------------------

\* C39: update_job_status with a job_id that is not in the Store returns
\* False and changes no job and no document; with the id of a stored job it
\* returns True.
C39_UnknownJob ==
    [][(Updates' = Updates + 1) =>
          IF call'.job_id \in DOMAIN jobs
          THEN call'.returned = TRUE
          ELSE /\ call'.returned = FALSE
               /\ jobs' = jobs
               /\ documents' = documents]_vars

\* a call on the stored job, then a call with an unknown id that carried a
\* status, an end_time and metadata: the job is as the first call left it
C39_Witness ==
    /\ Updates = 2
    /\ call.job_id \notin DOMAIN jobs
    /\ call.returned = FALSE
    /\ call.status = PARTIAL
    /\ call.end_time # None
    /\ call.metadata # None
    /\ jobs[1].status = PROCESSING
    /\ jobs[1].end_time = None
    /\ jobs[1].metadata = None

----------------------------------------------------------------------------

\* the attempt about to be made ends with an exception that is not of
\* retry_exceptions
FailsUnretryable ==
    /\ call.op = "retry_with_backoff"
    /\ call.pc = "attempting"
    /\ AttemptFailure(call.plan[call.attempt + 1], call.call_timeout)
          \notin call.retry_exceptions \cup {"", "never"}

\* C40: in retry_with_backoff a failure that is not of the retryable set
\* reaches the caller on the attempt where it occurs: no backoff follows it
\* and no further attempt is made, whatever max_attempts is.
C40_UnretryablePropagates ==
    [][/\ FailsUnretryable =>
             /\ call'.pc = "raised"
             /\ call'.error = Some([attempt |-> call.attempt + 1,
                                    class |-> AttemptFailure(call.plan[call.attempt + 1],
                                                             call.call_timeout)])
             /\ call'.calls = Append(call.calls, call.attempt + 1)
             /\ call'.sleeps = call.sleeps
       /\ (call.op = "retry_with_backoff" /\ call.pc = "raised") => call' = call]_vars

\* a retryable failure was retried after a backoff, then the second attempt
\* of three raised a ValueError the caller had not listed
C40_Witness ==
    /\ call # None
    /\ call.op = "retry_with_backoff"
    /\ call.pc = "raised"
    /\ call.max_attempts = 3
    /\ call.retry_exceptions = {"ConnectionError", "TimeoutError"}
    /\ call.error = Some([attempt |-> 2, class |-> "ValueError"])
    /\ call.calls = <<1, 2>>
    /\ call.sleeps = <<1>>

====
